---------------------------- MODULE Spec2Model ----------------------------
(***************************************************************************)
(* Entropy acquisition and freshness protocol of QRDFP-X.                  *)
(*                                                                         *)
(* Two entropy endpoints are modelled from the source:                     *)
(*   - the store-backed endpoint (MongoDB collection entropy_log):         *)
(*     POST ingests a 32-byte payload, GET issues one sample;              *)
(*   - the in-memory endpoint (single latestEntropy slot): POST entropy    *)
(*     and POST derive-key.                                                *)
(* Every handler is cut at its awaits on shared state: a step is the       *)
(* JavaScript that runs up to the next database operation together with    *)
(* that operation's effect, so concurrent requests interleave exactly      *)
(* where the code yields.                                                  *)
(*                                                                         *)
(* The client is modelled in specifications of its own, which leave the    *)
(* server's state alone:                                                   *)
(*   - the crypto library (deriveKey, encryptMessage, decryptMessage,      *)
(*     encryptFile, decryptFile) with its text, hex and base64             *)
(*     conversions; HKDF and AES-GCM are library code and are kept as      *)
(*     stand-ins;                                                          *)
(*   - the entropy cache (fetchEntropy, clearEntropyCache), the endpoint   *)
(*     being the set of responses it can give, with sign-in and sign-out;  *)
(*   - the session-key variant of the application (Index, ChatWindow)      *)
(*     over the table messages;                                            *)
(*   - ChatApp over the MongoDB collection messages: sending, the initial  *)
(*     load, the polls and room switches;                                  *)
(*   - FileTransfer over the storage bucket and the table of file records: *)
(*     upload and download.                                                *)
(* fetchEntropy is also run against the store-backed endpoint itself, on   *)
(* its own and together with the sends and uploads that record the source  *)
(* of the value they used.                                                 *)
(* Outages of the database and the status poll of the issuance endpoint    *)
(* have specifications of their own over the server's handlers.            *)
(***************************************************************************)
EXTENDS Integers, Sequences, FiniteSets, TLC

VARIABLES
    now,            \* Date.now(), in ms since the top of the current hour
    store,          \* MongoDB collection entropy_log, in insertion order
    req,            \* the requests, in order of arrival: each handler's
                    \* position and locals, and its response once it is done
    latestEntropy,  \* in-memory endpoint: the latestEntropy slot
    memLog,         \* in-memory endpoint: rows of the entropy_log table
    dbUp,           \* the MongoDB deployment is reachable
    envelope,       \* client crypto: the last encryption, call and result
    opened,         \* client crypto: the last decryption, call and result
    derived,        \* client crypto: the deriveKey calls made, in order
    cachedEntropy,  \* client cache: the cachedEntropy slot
    fetching,       \* client cache: fetchEntropy calls awaiting the endpoint
    returned,       \* client cache: what fetchEntropy returned last
    cleared,        \* client cache: clearEntropyCache was called and
                    \* fetchEntropy has not been called since
    cachedIn,       \* client cache: the sign-in during which the cached
                    \* value was written (0: before the first)
    received,       \* client cache: the requests whose response
                    \* fetchEntropy has read
    user,           \* application: the signed-in user, null when signed out
    logins,         \* application: sign-ins so far
    sessionKey,     \* Index: the sessionKey state, null or a key
    entropySource,  \* Index: the entropySource state
    deriving,       \* Index: deriveSessionKey calls awaiting the endpoint
    pgMessages,     \* the table messages of the session-key variant
    windowMessages, \* ChatWindow: the messages state
    delivered,      \* ChatWindow: rows whose INSERT event has been handled
                    \* or was missed
    mongoMessages,  \* MongoDB collection messages, in insertion order
    posting,        \* mongo-messages POST: documents built, not yet inserted
    activeRoom,     \* ChatApp: id of the active room, "" for null
    messages,       \* ChatApp: the messages state
    lastTimestampRef, \* ChatApp: lastTimestampRef.current
    loads,          \* ChatApp: the loadMessages calls in progress
    bucket,         \* the storage bucket encrypted-files: path and content
                    \* of its objects
    fileMeta,       \* the file records saved through mongo-files
    downloaded      \* FileTransfer: how the last handleDownload ended

\* The server's state and the client's.
serverVars == <<now, store, req, latestEntropy, memLog, dbUp>>
cryptoVars == <<envelope, opened, derived>>
cacheVars == <<cachedEntropy, fetching, returned, cleared, cachedIn,
               received>>
sessionVars == <<user, logins>>
keyVars == <<sessionKey, entropySource, deriving, pgMessages, windowMessages,
            delivered>>
chatVars == <<mongoMessages, posting, activeRoom, messages, lastTimestampRef,
             loads>>
fileVars == <<bucket, fileMeta, downloaded>>
appVars == <<sessionVars, keyVars, chatVars, fileVars>>
clientVars == <<cryptoVars, cacheVars, fileVars,
                   appVars>>

vars == <<now, store, req, latestEntropy, memLog, dbUp,
          envelope, opened, derived,
          cachedEntropy, fetching, returned, cleared, cachedIn, received,
          user, logins, sessionKey, entropySource, deriving, pgMessages,
          windowMessages, delivered, mongoMessages, posting, activeRoom,
          messages, lastTimestampRef, loads, bucket, fileMeta, downloaded>>

---------------------------------------------------------------------------
(* Bounds of the model *)

MaxRequests == 3        \* requests received in one behaviour
MaxInFlight == 2        \* requests being handled at the same time
MaxChars == 1           \* UTF-16 code units of a message, bytes of a file
MaxDerives == 2         \* deriveKey calls recorded in one behaviour
MaxLogins == 2          \* sign-ins in one behaviour
MaxRows == 2            \* messages stored in one behaviour
MaxLoads == 2           \* loadMessages calls in progress at the same time
TicksPerWindow == 1     \* clock advances per freshness window

(* Program constants *)

ENTROPY_BYTES == 32
ENTROPY_MAX_AGE_MS == 30000
CACHE_TTL_MS == 25000
ENTROPY_FRESHNESS_MS == 60000

TickMs == ENTROPY_MAX_AGE_MS \div TicksPerWindow
\* The clock starts one window into the hour, so that every cutoff the GET
\* handler computes lies in the same hour as the samples it is compared to.
ClockStart == ENTROPY_MAX_AGE_MS
\* The clock stops one advance after a sample of the first instant has left
\* the window.
ClockEnd == ClockStart + ENTROPY_MAX_AGE_MS + TickMs

Requests == 1..MaxRequests

---------------------------------------------------------------------------
(* Request bodies and random values *)

\* 0x01 .. 0x20
BodySeq == [i \in 1..ENTROPY_BYTES |-> i]
\* 32 bytes 0x00
BodyZeros == [i \in 1..ENTROPY_BYTES |-> 0]
\* 32 bytes 0xFF
BodyOnes == [i \in 1..ENTROPY_BYTES |-> 255]
\* 31 bytes
BodyShort == [i \in 1..(ENTROPY_BYTES - 1) |-> i]
\* 33 bytes
BodyLong == [i \in 1..(ENTROPY_BYTES + 1) |-> 16 + i]
BodyEmpty == <<>>

\* The bodies the endpoints are sent: under the concurrent and the
\* sequential specification, and under the specification of ingestion.
Bodies == {BodySeq, BodyZeros, BodyEmpty}
IngestBodies == {BodySeq, BodyZeros, BodyOnes, BodyShort, BodyLong, BodyEmpty}

\* Outcomes of crypto.getRandomValues(new Uint8Array(32)) the model draws
\* from.  The value drawn decides nothing a handler does, and the concurrent
\* specification draws from the first outcome alone.
SoftA == [i \in 1..ENTROPY_BYTES |-> (7 * i) % 256]
SoftB == [i \in 1..ENTROPY_BYTES |-> 255 - i]
SoftBytes == {SoftA, SoftB}
SoftBytesOne == {SoftA}

---------------------------------------------------------------------------
(* JavaScript conversions *)

HexChars == <<"0", "1", "2", "3", "4", "5", "6", "7",
              "8", "9", "a", "b", "c", "d", "e", "f">>

\* b.toString(16) for a byte b
ToString16(b) ==
    IF b < 16 THEN HexChars[b + 1]
    ELSE HexChars[(b \div 16) + 1] \o HexChars[(b % 16) + 1]

\* s.padStart(2, "0")
PadStart2(s) == IF Len(s) < 2 THEN "0" \o s ELSE s

\* A mutant of ByteHex: the padStart(2, "0") is missing.
ByteHexNoPad(b) == ToString16(b)

\* b.toString(16).padStart(2, "0")
ByteHex(b) == PadStart2(ToString16(b))

RECURSIVE Join(_)
\* parts.join("")
Join(parts) == IF parts = <<>> THEN "" ELSE Head(parts) \o Join(Tail(parts))

\* Array.from(bytes).map((b) => b.toString(16).padStart(2, "0")).join("")
JoinHex(bytes) == Join([i \in 1..Len(bytes) |-> ByteHex(bytes[i])])

\* The encodings of the bodies and random values of the model, computed
\* once.
HexOf == [bytes \in IngestBodies \cup SoftBytes |-> JoinHex(bytes)]

\* The same encoding, looked up where it has been computed.
ToHex(bytes) ==
    IF bytes \in DOMAIN HexOf THEN HexOf[bytes] ELSE JoinHex(bytes)

\* new Date(ms).toISOString(): "YYYY-MM-DDTHH:mm:ss.sssZ". All instants of a
\* behaviour lie in one hour, so the date and hour prefix is the same in
\* every string and is left out; what remains are the digits of mm, ss, sss.
ToISOString(ms) ==
    LET mm == ms \div 60000
        ss == (ms \div 1000) % 60
        f  == ms % 1000
    IN <<mm \div 10, mm % 10, ss \div 10, ss % 10,
         f \div 100, (f \div 10) % 10, f % 10>>

RECURSIVE StrLess(_, _)
\* a < b for strings, as MongoDB compares them: character by character
StrLess(a, b) ==
    IF b = <<>> THEN FALSE
    ELSE IF a = <<>> THEN TRUE
    ELSE IF Head(a) # Head(b) THEN Head(a) < Head(b)
    ELSE StrLess(Tail(a), Tail(b))

\* a >= b for strings
StrGte(a, b) == ~StrLess(a, b)

---------------------------------------------------------------------------
(* MongoDB operations on the collection entropy_log.  A document's _id is  *)
(* its position in the collection; null is the empty sequence and a found  *)
(* document d is <<d>>.                                                    *)

\* A mutant of MatchHex: only unused documents count as a replay.
MatchHexUnused(col, entropyHex) ==
    {i \in DOMAIN col : col[i].entropy_hex = entropyHex /\ ~col[i].used}

\* col.findOne({ entropy_hex: entropyHex }): the documents that match
MatchHex(col, entropyHex) ==
    {i \in DOMAIN col : col[i].entropy_hex = entropyHex}

\* A mutant of InsertOne: the write replaces the newest document.
InsertOneOverwrite(col, doc) ==
    IF col = <<>> THEN <<[doc EXCEPT !._id = 1]>>
    ELSE [col EXCEPT ![Len(col)] = [doc EXCEPT !._id = Len(col)]]

\* col.insertOne(doc)
InsertOne(col, doc) == Append(col, [doc EXCEPT !._id = Len(col) + 1])

\* A mutant of MatchFresh: the created_at bound is missing from the filter.
MatchFreshNoCutoff(col, cutoff) ==
    {i \in DOMAIN col : ~col[i].used /\ col[i].source = "hardware"}

\* the filter { used: false, source: "hardware", created_at: { $gte: cutoff } }
MatchFresh(col, cutoff) ==
    {i \in DOMAIN col :
        /\ ~col[i].used
        /\ col[i].source = "hardware"
        /\ StrGte(col[i].created_at, cutoff)}

\* A mutant of SortFirst: sort { created_at: 1 }.
SortFirstAscending(col, S) ==
    {i \in S : \A j \in S : StrGte(col[j].created_at, col[i].created_at)}

\* findOne(..., { sort: { created_at: -1 } }): the documents of S that may
\* come first; documents with equal created_at come in either order
SortFirst(col, S) ==
    {i \in S : \A j \in S : StrGte(col[i].created_at, col[j].created_at)}

\* A mutant of UpdateOneUsed: the filter matches no document.
UpdateOneMiss(col, id) == col

\* col.updateOne({ _id: id }, { $set: { used: true } })
UpdateOneUsed(col, id) == [col EXCEPT ![id].used = TRUE]

---------------------------------------------------------------------------
(* Handlers.  Request n is the n-th request received.  pc is the handler's *)
(* position: "new" before the request arrives, "done" once it is answered. *)

NoBytes == <<>>
NoDate == <<>>

\* at is the Date.now() the GET handler computed its cutoff from, sample the
\* _id of the stored document a hardware response was built from (0: none),
\* caller the function of the client library that sent a GET, key the key
\* of a derive-key response.
New == [pc |-> "new", ep |-> "", method |-> "", caller |-> "",
        body |-> NoBytes,
        entropyHex |-> "", found |-> 0, at |-> 0, cutoff |-> NoDate,
        fresh |-> <<>>, status |-> 0, source |-> "", entropy_hex |-> "",
        timestamp |-> NoDate, sample |-> 0, key |-> <<>>]

\* The handler of request r returns a response; its locals are dropped.
Respond(r, status, source, hex, timestamp, sample) ==
    [New EXCEPT !.pc = "done", !.ep = r.ep, !.method = r.method,
                !.caller = r.caller, !.body = r.body, !.at = r.at,
                !.status = status,
                !.source = source, !.entropy_hex = hex,
                !.timestamp = timestamp, !.sample = sample]

\* The requests being handled.
InFlight == {m \in Requests : req[m].pc \notin {"new", "done"}}

\* Requests are numbered in the order they arrive.
Arrives(n) ==
    /\ req[n].pc = "new"
    /\ \A m \in Requests : m < n => req[m].pc # "new"
    /\ Cardinality(InFlight) < MaxInFlight

\* A mutant of Catch: an error of the store is answered with the software
\* fallback.
CatchFallback(r) ==
    Respond(r, 200, "software", ToHex(SoftA), ToISOString(now), 0)

\* The catch block of either handler: getDb() or an operation on the
\* collection threw, the response is 500 with the error as its body.
Catch(r) == Respond(r, 500, "", "", NoDate, 0)

\* A mutant of SizeOk: only too short payloads are rejected.
SizeOkAtLeast(bytes) == Len(bytes) >= ENTROPY_BYTES

\* bytes.length !== ENTROPY_BYTES
SizeOk(bytes) == Len(bytes) = ENTROPY_BYTES

\* Store-backed POST, from the arrival of the request to the findOne of the
\* replay check and the branch on its result.  Nothing before the findOne
\* reads or writes shared state, so the request is taken to arrive when its
\* findOne runs.  found is the Date.now() at which the findOne ran.
Post(n, body) ==
    /\ Arrives(n)
    /\ LET r == [New EXCEPT !.ep = "store", !.method = "POST", !.body = body]
           entropyHex == ToHex(body)
       IN req' = [req EXCEPT ![n] =
                    IF ~SizeOk(body)
                    THEN Respond(r, 400, "", "", NoDate, 0)
                    ELSE IF ~dbUp
                    THEN Catch(r)
                    ELSE IF MatchHex(store, entropyHex) # {}
                    THEN Respond(r, 409, "", "", NoDate, 0)
                    ELSE [r EXCEPT !.pc = "post_insert",
                                   !.entropyHex = entropyHex,
                                   !.found = now]]
    /\ UNCHANGED <<now, store, latestEntropy, memLog, dbUp, clientVars>>

\* The instants the clock shows from t0 to t1.
Instants(t0, t1) ==
    {t0 + k * TickMs : k \in 0..((t1 - t0) \div TickMs)}

\* A mutant of Doc: the document is written already used.
DocUsed(entropyHex, t) ==
    [_id |-> 0, entropy_hex |-> entropyHex, source |-> "hardware",
     used |-> TRUE, created_at |-> ToISOString(t)]

\* The document the POST handler inserts, built at instant t.
Doc(entropyHex, t) ==
    [_id |-> 0, entropy_hex |-> entropyHex, source |-> "hardware",
     used |-> FALSE, created_at |-> ToISOString(t)]

\* The document is built and insertOne runs; the 200 response.  The handler
\* reads new Date() for created_at after the findOne has answered and before
\* the insertOne runs: at any instant from the one to the other.
PostInsertOne(n) ==
    /\ req[n].pc = "post_insert"
    /\ IF dbUp
       THEN /\ \E t \in Instants(req[n].found, now) :
                  store' = InsertOne(store, Doc(req[n].entropyHex, t))
            /\ req' = [req EXCEPT ![n] =
                         Respond(req[n], 200, "", "", NoDate, 0)]
       ELSE /\ store' = store
            /\ req' = [req EXCEPT ![n] = Catch(req[n])]
    /\ UNCHANGED <<now, latestEntropy, memLog, dbUp, clientVars>>

\* A mutant of Cutoff: the window is added instead of subtracted.
CutoffAhead(t) == ToISOString(t + ENTROPY_MAX_AGE_MS)

\* new Date(Date.now() - ENTROPY_MAX_AGE_MS).toISOString()
Cutoff(t) == ToISOString(t - ENTROPY_MAX_AGE_MS)

\* Store-backed GET sent by caller, up to the findOne.
Get(n, caller) ==
    /\ Arrives(n)
    /\ req' = [req EXCEPT ![n] =
                 [New EXCEPT !.pc = "get_find", !.ep = "store",
                             !.method = "GET", !.caller = caller,
                             !.at = now, !.cutoff = Cutoff(now)]]
    /\ UNCHANGED <<now, store, latestEntropy, memLog, dbUp, clientVars>>

\* The software fallback's response body.
SoftwareFallback(bytes, t) ==
    [source |-> "software", entropy_hex |-> ToHex(bytes),
     timestamp |-> ToISOString(t)]

\* The findOne of the GET handler and what follows it: the updateOne is
\* sent when a document was found, the software fallback is answered
\* otherwise, with random bytes drawn from pool.
GetFindOne(n, pool) ==
    /\ req[n].pc = "get_find"
    /\ LET found == SortFirst(store, MatchFresh(store, req[n].cutoff))
       IN IF ~dbUp
          THEN req' = [req EXCEPT ![n] = Catch(req[n])]
          ELSE IF found # {}
          THEN \E i \in found :
                  req' = [req EXCEPT ![n].pc = "get_update",
                                     ![n].fresh = <<store[i]>>]
          ELSE \E bytes \in pool :
                  LET soft == SoftwareFallback(bytes, now)
                  IN req' = [req EXCEPT ![n] =
                               Respond(req[n], 200, soft.source,
                                       soft.entropy_hex, soft.timestamp, 0)]
    /\ UNCHANGED <<now, store, latestEntropy, memLog, dbUp, clientVars>>

\* updateOne and the hardware response.
GetUpdateOne(n) ==
    /\ req[n].pc = "get_update"
    /\ LET fresh == req[n].fresh[1]
       IN IF dbUp
          THEN /\ store' = UpdateOneUsed(store, fresh._id)
               /\ req' = [req EXCEPT ![n] =
                            Respond(req[n], 200, "hardware",
                                    fresh.entropy_hex, fresh.created_at,
                                    fresh._id)]
          ELSE /\ store' = store
               /\ req' = [req EXCEPT ![n] = Catch(req[n])]
    /\ UNCHANGED <<now, latestEntropy, memLog, dbUp, clientVars>>

\* crypto.subtle.digest('SHA-256', entropy), hex encoded.  The digest is not
\* computed: it is kept as a value that names its input.
Sha256Hex(bytes) == <<"sha256", bytes>>

\* A mutant of MemPost: the payload's bytes are not looked at.
MemPostAnyBytes(n, body) ==
    /\ Arrives(n)
    /\ LET r == [New EXCEPT !.ep = "memory", !.method = "POST", !.body = body]
       IN IF Len(body) # 32
          THEN /\ req' = [req EXCEPT ![n] =
                            Respond(r, 400, "", "", NoDate, 0)]
               /\ latestEntropy' = latestEntropy
          ELSE /\ latestEntropy' = <<[data |-> body, timestamp |-> now]>>
               /\ req' = [req EXCEPT ![n] = [r EXCEPT !.pc = "mem_log"]]
    /\ UNCHANGED <<now, store, memLog, dbUp, clientVars>>

\* In-memory POST entropy, up to the digest.
MemPost(n, body) ==
    /\ Arrives(n)
    /\ LET r == [New EXCEPT !.ep = "memory", !.method = "POST", !.body = body]
           allZeros == \A i \in DOMAIN body : body[i] = 0
           allOnes == \A i \in DOMAIN body : body[i] = 255
       IN IF Len(body) # 32 \/ allZeros \/ allOnes
          THEN /\ req' = [req EXCEPT ![n] =
                            Respond(r, 400, "", "", NoDate, 0)]
               /\ latestEntropy' = latestEntropy
          ELSE /\ latestEntropy' = <<[data |-> body, timestamp |-> now]>>
               /\ req' = [req EXCEPT ![n] = [r EXCEPT !.pc = "mem_log"]]
    /\ UNCHANGED <<now, store, memLog, dbUp, clientVars>>

\* The digest, the insert into entropy_log and the 200 response.
MemPostLog(n) ==
    /\ req[n].pc = "mem_log"
    /\ memLog' = Append(memLog, [entropy_hash |-> Sha256Hex(req[n].body),
                                 source |-> "hardware", is_valid |-> TRUE])
    /\ req' = [req EXCEPT ![n] = Respond(req[n], 200, "", "", NoDate, 0)]
    /\ UNCHANGED <<now, store, latestEntropy, dbUp,
                 clientVars>>

\* The salts derive-key is sent: a user id, and none.
DeriveSalts == {"user", ""}

\* deriveBits with HKDF and SHA-256 over keyMaterial, hex encoded.  The key
\* is not computed: it is kept as a value that names its inputs.
HkdfHex(keyMaterial, salt) ==
    <<"hkdf", keyMaterial, IF salt # "" THEN salt ELSE "qrng-session-salt",
      "qrng-aes-256-gcm">>

\* In-memory POST derive-key, up to the await of req.json().  The salt of
\* the body is kept in the handler's local entropyHex.
MemDerive(n, salt) ==
    /\ Arrives(n)
    /\ req' = [req EXCEPT ![n] =
                 [New EXCEPT !.pc = "mem_derive", !.ep = "memory",
                             !.method = "DERIVE", !.entropyHex = salt]]
    /\ UNCHANGED <<now, store, latestEntropy, memLog, dbUp, clientVars>>

\* A mutant of Invalidate: the slot is left as it is.
InvalidateNot(slot) == slot

\* `latestEntropy = null` after the sample has been taken as key material
Invalidate(slot) == <<>>

\* The rest of the derive-key handler: the slot is read and, when it holds
\* a fresh sample, emptied before the next await; the key is derived from
\* the sample or from random bytes and answered with its source.
MemDeriveKey(n, pool) ==
    /\ req[n].pc = "mem_derive"
    /\ LET isFresh == /\ latestEntropy # <<>>
                      /\ now - latestEntropy[1].timestamp
                            < ENTROPY_FRESHNESS_MS
           salt == req[n].entropyHex
       IN IF isFresh
          THEN /\ latestEntropy' = Invalidate(latestEntropy)
               /\ req' = [req EXCEPT ![n] =
                            [Respond(req[n], 200, "hardware", "", NoDate, 0)
                               EXCEPT !.key =
                                  HkdfHex(latestEntropy[1].data, salt)]]
          ELSE /\ latestEntropy' = latestEntropy
               /\ \E bytes \in pool :
                     req' = [req EXCEPT ![n] =
                               [Respond(req[n], 200, "software", "", NoDate,
                                        0)
                                  EXCEPT !.key = HkdfHex(bytes, salt)]]
    /\ UNCHANGED <<now, store, memLog, dbUp, clientVars>>

\* Time passes.
Tick ==
    /\ now < ClockEnd
    /\ now' = now + TickMs
    /\ UNCHANGED <<store, req, latestEntropy, memLog, dbUp, clientVars>>

---------------------------------------------------------------------------
(* Specifications *)

Init ==
    /\ now = ClockStart
    /\ store = <<>>
    /\ req = [n \in Requests |-> New]
    /\ latestEntropy = <<>>
    /\ memLog = <<>>
    /\ dbUp = TRUE
    /\ envelope = <<>>
    /\ opened = <<>>
    /\ derived = <<>>
    /\ cachedEntropy = <<>>
    /\ fetching = 0
    /\ returned = <<>>
    /\ cleared = FALSE
    /\ cachedIn = 0
    /\ received = {}
    /\ user = <<>>
    /\ logins = 0
    /\ sessionKey = <<>>
    /\ entropySource = "software"
    /\ deriving = 0
    /\ pgMessages = <<>>
    /\ windowMessages = <<>>
    /\ delivered = 0
    /\ mongoMessages = <<>>
    /\ posting = <<>>
    /\ activeRoom = ""
    /\ messages = <<>>
    /\ lastTimestampRef = <<>>
    /\ loads = <<>>
    /\ bucket = {}
    /\ fileMeta = <<>>
    /\ downloaded = <<>>

\* The store-backed endpoint, its requests handled concurrently.
Next ==
    \/ \E n \in Requests, body \in Bodies : Post(n, body)
    \/ \E n \in Requests : PostInsertOne(n)
    \/ \E n \in Requests : Get(n, "fetchEntropy")
    \/ \E n \in Requests : GetFindOne(n, SoftBytesOne)
    \/ \E n \in Requests : GetUpdateOne(n)
    \/ Tick

Spec == Init /\ [][Next]_vars

\* The store-backed endpoint, one request at a time: a request arrives when
\* the one before it has been answered.
NextSeq ==
    \/ \E n \in Requests, body \in Bodies : InFlight = {} /\ Post(n, body)
    \/ \E n \in Requests : PostInsertOne(n)
    \/ \E n \in Requests : InFlight = {} /\ Get(n, "fetchEntropy")
    \/ \E n \in Requests : GetFindOne(n, SoftBytes)
    \/ \E n \in Requests : GetUpdateOne(n)
    \/ Tick

SpecSeq == Init /\ [][NextSeq]_vars

\* The MongoDB deployment becomes unreachable, or reachable again: from
\* then on getDb() (on its first call) and every operation on the collection
\* throw, or succeed again.
Outage ==
    /\ dbUp' = ~dbUp
    /\ UNCHANGED <<now, store, req, latestEntropy, memLog, clientVars>>

\* The store-backed endpoint with outages of the store, one request at a
\* time.
NextOutage ==
    \/ \E n \in Requests, body \in Bodies : InFlight = {} /\ Post(n, body)
    \/ \E n \in Requests : PostInsertOne(n)
    \/ \E n \in Requests : InFlight = {} /\ Get(n, "fetchEntropy")
    \/ \E n \in Requests : GetFindOne(n, SoftBytesOne)
    \/ \E n \in Requests : GetUpdateOne(n)
    \/ Outage
    \/ Tick

SpecOutage == Init /\ [][NextOutage]_vars

\* The functions of the client library that send a GET to the endpoint.
Callers == {"fetchEntropy", "getLatestEntropyStatus"}

\* The store-backed endpoint as the application uses it, one request at a
\* time: the device posts, fetchEntropy gets when a message or a file is
\* encrypted, and the status badge gets through getLatestEntropyStatus when
\* it is mounted and every 10 seconds from then on.
NextStatus ==
    \/ \E n \in Requests, body \in Bodies : InFlight = {} /\ Post(n, body)
    \/ \E n \in Requests : PostInsertOne(n)
    \/ \E n \in Requests, caller \in Callers :
          InFlight = {} /\ Get(n, caller)
    \/ \E n \in Requests : GetFindOne(n, SoftBytesOne)
    \/ \E n \in Requests : GetUpdateOne(n)
    \/ Tick

SpecStatus == Init /\ [][NextStatus]_vars

\* Ingestion at both endpoints, requests handled concurrently.
NextIngest ==
    \/ \E n \in Requests, body \in IngestBodies : Post(n, body)
    \/ \E n \in Requests : PostInsertOne(n)
    \/ \E n \in Requests, body \in IngestBodies : MemPost(n, body)
    \/ \E n \in Requests : MemPostLog(n)

SpecIngest == Init /\ [][NextIngest]_vars

\* The in-memory endpoint, requests handled concurrently.
NextMem ==
    \/ \E n \in Requests, body \in Bodies \cup {BodyOnes} : MemPost(n, body)
    \/ \E n \in Requests : MemPostLog(n)
    \/ \E n \in Requests, salt \in DeriveSalts : MemDerive(n, salt)
    \/ \E n \in Requests : MemDeriveKey(n, SoftBytesOne)
    \/ Tick

SpecMem == Init /\ [][NextMem]_vars

---------------------------------------------------------------------------
(* Client crypto: text and byte conversions *)

\* A JavaScript string is the sequence of its UTF-16 code units.
IsHigh(c) == c >= 55296 /\ c <= 56319
IsLow(c) == c >= 56320 /\ c <= 57343

RECURSIVE ToScalars(_)
\* The scalar values TextEncoder encodes: a surrogate pair is one scalar
\* value, an unpaired surrogate is replaced by U+FFFD.
ToScalars(s) ==
    IF s = <<>> THEN <<>>
    ELSE IF IsHigh(s[1]) /\ Len(s) >= 2 /\ IsLow(s[2])
         THEN <<65536 + (s[1] - 55296) * 1024 + (s[2] - 56320)>>
                 \o ToScalars(SubSeq(s, 3, Len(s)))
    ELSE IF IsHigh(s[1]) \/ IsLow(s[1])
         THEN <<65533>> \o ToScalars(Tail(s))
    ELSE <<s[1]>> \o ToScalars(Tail(s))

\* The UTF-8 bytes of one scalar value.
Utf8Bytes(cp) ==
    IF cp < 128 THEN <<cp>>
    ELSE IF cp < 2048 THEN <<192 + (cp \div 64), 128 + (cp % 64)>>
    ELSE IF cp < 65536
         THEN <<224 + (cp \div 4096), 128 + ((cp \div 64) % 64),
                128 + (cp % 64)>>
    ELSE <<240 + (cp \div 262144), 128 + ((cp \div 4096) % 64),
           128 + ((cp \div 64) % 64), 128 + (cp % 64)>>

RECURSIVE Concat(_)
Concat(parts) ==
    IF parts = <<>> THEN <<>> ELSE Head(parts) \o Concat(Tail(parts))

\* A mutant of TextEncode: one byte for each code unit, its low eight bits.
TextEncodeLatin1(s) == [i \in DOMAIN s |-> s[i] % 256]

\* new TextEncoder().encode(s)
TextEncode(s) ==
    LET sc == ToScalars(s)
    IN Concat([i \in DOMAIN sc |-> Utf8Bytes(sc[i])])

IsCont(b, i) == i <= Len(b) /\ b[i] >= 128 /\ b[i] <= 191

RECURSIVE DecodeScalars(_)
\* The scalar values of UTF-8 bytes; a byte that starts no well-formed
\* sequence decodes to U+FFFD.
DecodeScalars(b) ==
    IF b = <<>> THEN <<>>
    ELSE IF b[1] < 128
         THEN <<b[1]>> \o DecodeScalars(Tail(b))
    ELSE IF b[1] >= 194 /\ b[1] <= 223 /\ IsCont(b, 2)
         THEN <<(b[1] - 192) * 64 + (b[2] - 128)>>
                 \o DecodeScalars(SubSeq(b, 3, Len(b)))
    ELSE IF /\ b[1] >= 224 /\ b[1] <= 239 /\ IsCont(b, 2) /\ IsCont(b, 3)
            /\ (b[1] - 224) * 4096 + (b[2] - 128) * 64 >= 2048
            /\ ~IsHigh((b[1] - 224) * 4096 + (b[2] - 128) * 64)
            /\ ~IsLow((b[1] - 224) * 4096 + (b[2] - 128) * 64)
         THEN <<(b[1] - 224) * 4096 + (b[2] - 128) * 64 + (b[3] - 128)>>
                 \o DecodeScalars(SubSeq(b, 4, Len(b)))
    ELSE IF /\ b[1] >= 240 /\ b[1] <= 244
            /\ IsCont(b, 2) /\ IsCont(b, 3) /\ IsCont(b, 4)
            /\ (b[1] - 240) * 262144 + (b[2] - 128) * 4096 >= 65536
            /\ (b[1] - 240) * 262144 + (b[2] - 128) * 4096 < 1114112
         THEN <<(b[1] - 240) * 262144 + (b[2] - 128) * 4096
                  + (b[3] - 128) * 64 + (b[4] - 128)>>
                 \o DecodeScalars(SubSeq(b, 5, Len(b)))
    ELSE <<65533>> \o DecodeScalars(Tail(b))

\* The UTF-16 code units of one scalar value.
Utf16Units(cp) ==
    IF cp < 65536 THEN <<cp>>
    ELSE <<55296 + ((cp - 65536) \div 1024), 56320 + ((cp - 65536) % 1024)>>

\* new TextDecoder().decode(bytes): UTF-8, a leading byte order mark is
\* dropped (ignoreBOM is false by default).
TextDecode(b) ==
    LET all == DecodeScalars(b)
        sc == IF all # <<>> /\ all[1] = 65279 THEN Tail(all) ELSE all
    IN Concat([i \in DOMAIN sc |-> Utf16Units(sc[i])])

\* The base64 alphabet.
B64Chars ==
    <<"A", "B", "C", "D", "E", "F", "G", "H", "I", "J", "K", "L", "M",
      "N", "O", "P", "Q", "R", "S", "T", "U", "V", "W", "X", "Y", "Z",
      "a", "b", "c", "d", "e", "f", "g", "h", "i", "j", "k", "l", "m",
      "n", "o", "p", "q", "r", "s", "t", "u", "v", "w", "x", "y", "z",
      "0", "1", "2", "3", "4", "5", "6", "7", "8", "9", "+", "/">>

B64Char(v) == B64Chars[v + 1]
B64Values ==
    [c \in {B64Chars[i] : i \in DOMAIN B64Chars} |->
        (CHOOSE i \in DOMAIN B64Chars : B64Chars[i] = c) - 1]
B64Value(c) == B64Values[c]

RECURSIVE Btoa(_)
\* btoa on the binary string of bytes b: the characters, one by one.
Btoa(b) ==
    IF b = <<>> THEN <<>>
    ELSE IF Len(b) = 1
         THEN <<B64Char(b[1] \div 4), B64Char((b[1] % 4) * 16), "=", "=">>
    ELSE IF Len(b) = 2
         THEN <<B64Char(b[1] \div 4),
                B64Char((b[1] % 4) * 16 + (b[2] \div 16)),
                B64Char((b[2] % 16) * 4), "=">>
    ELSE <<B64Char(b[1] \div 4),
           B64Char((b[1] % 4) * 16 + (b[2] \div 16)),
           B64Char((b[2] % 16) * 4 + (b[3] \div 64)),
           B64Char(b[3] % 64)>> \o Btoa(SubSeq(b, 4, Len(b)))

\* btoa(String.fromCharCode(...bytes))
BytesToBase64(bytes) == Btoa(bytes)

RECURSIVE AtobGroups(_)
\* The bytes of base64 values v: three for each four values, and one or two
\* for the two or three values left, whose spare bits are dropped.
AtobGroups(v) ==
    IF Len(v) < 2 THEN <<>>
    ELSE IF Len(v) = 2 THEN <<v[1] * 4 + (v[2] \div 16)>>
    ELSE IF Len(v) = 3
         THEN <<v[1] * 4 + (v[2] \div 16),
                (v[2] % 16) * 16 + (v[3] \div 4)>>
    ELSE <<v[1] * 4 + (v[2] \div 16),
           (v[2] % 16) * 16 + (v[3] \div 4),
           (v[3] % 4) * 64 + v[4]>> \o AtobGroups(SubSeq(v, 5, Len(v)))

\* atob(s): ASCII whitespace is removed, then one or two "=" at the end of
\* a string whose length is a multiple of four; a length of 4k + 1 or a
\* character outside the alphabet throws InvalidCharacterError.
Atob(s) ==
    LET data == SelectSeq(s, LAMBDA c :
                                c \notin {" ", "\t", "\n", "\f", "\r"})
        n == Len(data)
        cut == IF n % 4 = 0 /\ n >= 2 /\ data[n] = "="
               THEN IF data[n - 1] = "=" THEN 2 ELSE 1
               ELSE 0
        body == SubSeq(data, 1, n - cut)
        chars == {B64Chars[i] : i \in DOMAIN B64Chars}
    IN IF Len(body) % 4 = 1 \/ \E i \in DOMAIN body : body[i] \notin chars
       THEN [ok |-> FALSE, bytes |-> <<>>]
       ELSE [ok |-> TRUE,
             bytes |-> AtobGroups([i \in DOMAIN body |-> B64Value(body[i])])]

\* atob(b64).split("").map(c => c.charCodeAt(0)), copied into a Uint8Array
Base64ToBytes(b64) == Atob(b64)

---------------------------------------------------------------------------
(* Client crypto: key derivation and the authenticated cipher *)

\* An entropy_hex value as the client reads it: the characters of ToHex.
HexDigits(bytes) ==
    Concat([i \in DOMAIN bytes |->
              <<HexChars[(bytes[i] \div 16) + 1],
                HexChars[(bytes[i] % 16) + 1]>>])

UpperHexChars == <<"0", "1", "2", "3", "4", "5", "6", "7",
                   "8", "9", "A", "B", "C", "D", "E", "F">>

IsHexDigit(c) ==
    \E i \in DOMAIN HexChars : HexChars[i] = c \/ UpperHexChars[i] = c

HexDigitValue(c) ==
    (CHOOSE i \in DOMAIN HexChars :
        HexChars[i] = c \/ UpperHexChars[i] = c) - 1

\* parseInt(pair, 16) stored into a Uint8Array: the digits up to the first
\* character that is no hex digit; NaN is stored as 0.
ParseInt16(pair) ==
    IF ~IsHexDigit(pair[1]) THEN 0
    ELSE IF ~IsHexDigit(pair[2]) THEN HexDigitValue(pair[1])
    ELSE HexDigitValue(pair[1]) * 16 + HexDigitValue(pair[2])

\* hexToBytes(hex): the buffer has hex.length / 2 bytes, rounded down; the
\* length is not checked.
HexToBytes(hex) ==
    [k \in 1..(Len(hex) \div 2) |-> ParseInt16(SubSeq(hex, 2 * k - 1, 2 * k))]

\* The info of the derivation.
Info == "QRNG-SecureComms-v1"

\* The salt as HMAC-SHA-256 takes it for its key: padded with zero bytes to
\* the block of 64 bytes (a longer salt would be hashed first).
HmacKey(salt) ==
    [i \in 1..64 |-> IF i <= Len(salt) THEN salt[i] ELSE 0]

\* HKDF-SHA-256 of crypto.subtle.deriveKey.  The key is not computed: it is
\* kept as the value that names what it is derived from.
Hkdf(ikm, salt, info) ==
    [ikm |-> ikm, salt |-> HmacKey(salt), info |-> info]

RECURSIVE WeightedSum(_, _, _, _)
\* The sum, modulo 256, of the bytes of y from position lo to position hi,
\* each with an odd weight that depends on its position and on j.
WeightedSum(y, lo, hi, j) ==
    IF lo > hi THEN 0
    ELSE IF lo = hi THEN ((2 * ((lo * j) % 128) + 1) * y[lo]) % 256
    ELSE LET mid == (lo + hi) \div 2
         IN (WeightedSum(y, lo, mid, j)
               + WeightedSum(y, mid + 1, hi, j)) % 256

\* The digest of bytes under weights j.
Digest(bytes, j) ==
    CHOOSE d \in {WeightedSum(y, 1, Len(y), j) : y \in {bytes}} : TRUE

\* AES-256-GCM is not computed.  Its stand-in keeps what the cipher gives:
\* the ciphertext is as long as the plaintext and is followed by a tag of
\* 16 bytes; decryption under the same key and iv inverts encryption; a
\* change of the key, the iv, the ciphertext or the tag changes the tag the
\* decryption expects.
KeyIv(key, iv) == key.ikm \o key.salt \o <<Len(iv)>> \o iv

\* Two digests of the key and the iv.
GcmKeys(key, iv) ==
    LET k == KeyIv(key, iv) IN <<Digest(k, 1), Digest(k, 2)>>

GcmTag(ks, plain) ==
    LET y == <<Len(plain)>> \o plain
    IN [j \in 1..16 |->
          ((2 * j + 1) * ks[(j % 2) + 1] + Digest(y, j)) % 256]

\* crypto.subtle.encrypt({name: "AES-GCM", iv}, key, plain)
AesGcmEncrypt(key, iv, plain) ==
    LET ks == GcmKeys(key, iv)
    IN [i \in DOMAIN plain |-> (plain[i] + ks[1] + i) % 256]
          \o GcmTag(ks, plain)

\* crypto.subtle.decrypt({name: "AES-GCM", iv}, key, data): the plaintext,
\* or OperationError when the tag does not fit.
AesGcmDecrypt(key, iv, data) ==
    IF Len(data) < 16 THEN [ok |-> FALSE, bytes |-> <<>>]
    ELSE LET n == Len(data) - 16
             ks == GcmKeys(key, iv)
             plain == [i \in 1..n |-> (data[i] + 512 - ks[1] - i) % 256]
         IN IF GcmTag(ks, plain) = SubSeq(data, n + 1, n + 16)
            THEN [ok |-> TRUE, bytes |-> plain]
            ELSE [ok |-> FALSE, bytes |-> <<>>]

\* A mutant of DeriveKey: the salt supplied is ignored.
DeriveKeyNewSalt(entropyHex, salt, random) ==
    [key |-> Hkdf(HexToBytes(entropyHex), random, Info), salt |-> random]

\* A mutant of DeriveKey: the salt returned is always a new one.
DeriveKeyOtherSalt(entropyHex, salt, random) ==
    [key |-> Hkdf(HexToBytes(entropyHex),
                  IF salt # <<>> THEN salt[1] ELSE random, Info),
     salt |-> random]

\* deriveKey(entropyHex, salt): salt is <<>> when the argument is left out;
\* random is what crypto.getRandomValues(new Uint8Array(32)) yields.
DeriveKey(entropyHex, salt, random) ==
    LET ikm == HexToBytes(entropyHex)
        rawSalt == IF salt # <<>> THEN salt[1] ELSE random
    IN [key |-> Hkdf(ikm, rawSalt, Info), salt |-> rawSalt]

---------------------------------------------------------------------------
(* Client crypto: messages and files *)

\* What a call returns, and the exception it throws.
Return(value) == [ok |-> TRUE, error |-> "", value |-> value]
Throw(error) == [ok |-> FALSE, error |-> error, value |-> <<>>]

\* encryptMessage(plaintext, entropyHex); randomSalt and randomIv are what
\* crypto.getRandomValues yields in deriveKey and for the iv.
EncryptMessage(plaintext, entropyHex, randomSalt, randomIv) ==
    LET d == DeriveKey(entropyHex, <<>>, randomSalt)
        encoded == TextEncode(plaintext)
        cipherBuffer == AesGcmEncrypt(d.key, randomIv, encoded)
    IN [ciphertext |-> BytesToBase64(cipherBuffer),
        iv |-> BytesToBase64(randomIv),
        salt |-> BytesToBase64(d.salt)]

\* A mutant of DecryptMessage: the tag is cut off and is not checked.
DecryptMessageNoTag(ciphertext, ivB64, saltB64, entropyHex) ==
    LET cipherBytes == Base64ToBytes(ciphertext)
    IN IF ~cipherBytes.ok \/ Len(cipherBytes.bytes) < 16
       THEN Throw("OperationError")
       ELSE LET key == DeriveKey(entropyHex,
                                 <<Base64ToBytes(saltB64).bytes>>, <<>>).key
                iv == Base64ToBytes(ivB64).bytes
                n == Len(cipherBytes.bytes) - 16
                pad == GcmKeys(key, iv)[1]
                data == cipherBytes.bytes
            IN Return(TextDecode(
                  [i \in 1..n |-> (data[i] + 512 - pad - i) % 256]))

\* decryptMessage(ciphertext, ivB64, saltB64, entropyHex)
DecryptMessage(ciphertext, ivB64, saltB64, entropyHex) ==
    LET salt == Base64ToBytes(saltB64)
        iv == Base64ToBytes(ivB64)
        cipherBytes == Base64ToBytes(ciphertext)
    IN IF ~salt.ok \/ ~iv.ok \/ ~cipherBytes.ok
       THEN Throw("InvalidCharacterError")
       ELSE LET key == DeriveKey(entropyHex, <<salt.bytes>>, <<>>).key
                plainBuffer == AesGcmDecrypt(key, iv.bytes, cipherBytes.bytes)
            IN IF ~plainBuffer.ok
               THEN Throw("OperationError")
               ELSE Return(TextDecode(plainBuffer.bytes))

\* encryptFile(file, entropyHex): fileBuffer is the file's bytes; the blob
\* holds the cipher's output as it is.
EncryptFile(fileBuffer, entropyHex, randomSalt, randomIv) ==
    LET d == DeriveKey(entropyHex, <<>>, randomSalt)
        cipherBuffer == AesGcmEncrypt(d.key, randomIv, fileBuffer)
    IN [ciphertext |-> cipherBuffer,
        iv |-> BytesToBase64(randomIv),
        salt |-> BytesToBase64(d.salt)]

\* decryptFile(encryptedBlob, ivB64, saltB64, entropyHex): the bytes of the
\* blob it returns.
DecryptFile(encBuffer, ivB64, saltB64, entropyHex) ==
    LET salt == Base64ToBytes(saltB64)
        iv == Base64ToBytes(ivB64)
    IN IF ~salt.ok \/ ~iv.ok
       THEN Throw("InvalidCharacterError")
       ELSE LET key == DeriveKey(entropyHex, <<salt.bytes>>, <<>>).key
                plainBuffer == AesGcmDecrypt(key, iv.bytes, encBuffer)
            IN IF ~plainBuffer.ok
               THEN Throw("OperationError")
               ELSE Return(plainBuffer.bytes)

---------------------------------------------------------------------------
(* Client crypto: the calls *)

\* The code units messages are made of: "A", e with acute accent, the two
\* halves of a surrogate pair and the byte order mark.
CodeUnits == {65, 233, 55357, 56832, 65279}
\* The messages: every string of these up to the bound, and the pair.
Plaintexts ==
    UNION {[1..k -> CodeUnits] : k \in 0..MaxChars} \cup {<<55357, 56832>>}
FileBuffers == UNION {[1..k -> {0, 255}] : k \in 0..MaxChars}

\* The entropy values clients hold: a hardware sample's, a software one's.
EntropyHexes == {HexDigits(BodySeq), HexDigits(SoftA)}

\* Outcomes of crypto.getRandomValues the model draws from, for the salt
\* and for the iv.
RandomSalts == {SoftA, SoftB}
IvA == [i \in 1..12 |-> 16 * i]
IvB == [i \in 1..12 |-> 255 - i]
RandomIvs == {IvA, IvB}

\* encryptMessage or encryptFile is called and returns the envelope.
Encrypt(kind, plaintext, entropyHex) ==
    /\ envelope = <<>>
    /\ \E randomSalt \in RandomSalts, randomIv \in RandomIvs :
          LET e == IF kind = "message"
                   THEN EncryptMessage(plaintext, entropyHex,
                                       randomSalt, randomIv)
                   ELSE EncryptFile(plaintext, entropyHex,
                                    randomSalt, randomIv)
          IN envelope' = <<[kind |-> kind, plaintext |-> plaintext,
                            entropyHex |-> entropyHex,
                            ciphertext |-> e.ciphertext,
                            iv |-> e.iv, salt |-> e.salt]>>
    /\ UNCHANGED <<serverVars, opened, derived, cacheVars, appVars>>

\* Bytes b with one bit of byte i flipped.
FlipBit(b, i) ==
    [b EXCEPT ![i] = IF b[i] % 2 = 0 THEN b[i] + 1 ELSE b[i] - 1]

\* What a party that holds bytes b may present in their place: a bit of the
\* first or of the last byte flipped, a zero byte added.
Altered(b) ==
    {b \o <<0>>}
      \cup (IF b = <<>> THEN {} ELSE {FlipBit(b, 1), FlipBit(b, Len(b))})

\* The same for a base64 field, and the field with a line feed or with a
\* character outside the alphabet after it.
AlteredBase64(s) ==
    {BytesToBase64(b) : b \in Altered(Base64ToBytes(s).bytes)}
      \cup {s \o <<"\n">>, s \o <<"*">>}

\* The arguments decryption is called with for the envelope: its own
\* fields and entropy, or these with one of them replaced.
DecryptArgs ==
    LET e == envelope[1]
        own == [ciphertext |-> e.ciphertext, iv |-> e.iv, salt |-> e.salt,
                entropyHex |-> e.entropyHex]
    IN {own}
         \cup {[own EXCEPT !.ciphertext = c] :
                 c \in IF e.kind = "message"
                       THEN AlteredBase64(e.ciphertext)
                       ELSE Altered(e.ciphertext)}
         \cup {[own EXCEPT !.iv = s] : s \in AlteredBase64(e.iv)}
         \cup {[own EXCEPT !.salt = s] : s \in AlteredBase64(e.salt)}
         \cup {[own EXCEPT !.entropyHex = h] : h \in EntropyHexes}

\* decryptMessage or decryptFile is called and returns or throws.
Decrypt ==
    /\ envelope # <<>>
    /\ opened = <<>>
    /\ \E a \in DecryptArgs :
          LET r == IF envelope[1].kind = "message"
                   THEN DecryptMessage(a.ciphertext, a.iv, a.salt,
                                       a.entropyHex)
                   ELSE DecryptFile(a.ciphertext, a.iv, a.salt, a.entropyHex)
          IN opened' = <<[ciphertext |-> a.ciphertext, iv |-> a.iv,
                          salt |-> a.salt, entropyHex |-> a.entropyHex,
                          ok |-> r.ok, error |-> r.error,
                          value |-> r.value]>>
    /\ UNCHANGED <<serverVars, envelope, derived, cacheVars, appVars>>

\* A client encrypts a message or a file, and the envelope is decrypted, as
\* it is or altered.
NextCrypto ==
    \/ \E p \in Plaintexts, h \in EntropyHexes : Encrypt("message", p, h)
    \/ \E f \in FileBuffers, h \in EntropyHexes : Encrypt("file", f, h)
    \/ Decrypt

SpecCrypto == Init /\ [][NextCrypto]_vars

---------------------------------------------------------------------------
(* Client crypto: deriveKey called on its own *)

\* The entropy values deriveKey is called with: of 64 hex digits, and of
\* 62, of 63 and of 66 digits.
DeriveHexes ==
    EntropyHexes
      \cup {SubSeq(HexDigits(BodySeq), 1, 62),
            SubSeq(HexDigits(BodySeq), 1, 63), HexDigits(BodyLong)}

\* deriveKey(entropyHex, salt) is called and returns; no path of it throws.
DeriveKeyCall(entropyHex, salt) ==
    /\ Len(derived) < MaxDerives
    /\ \E random \in RandomSalts :
          LET d == DeriveKey(entropyHex, salt, random)
          IN derived' = Append(derived,
                               [entropyHex |-> entropyHex, supplied |-> salt,
                                ok |-> TRUE, key |-> d.key, salt |-> d.salt])
    /\ UNCHANGED <<serverVars, envelope, opened, cacheVars, appVars>>

NextDerive ==
    \E h \in DeriveHexes, salt \in {<<>>} \cup {<<s>> : s \in RandomSalts} :
        DeriveKeyCall(h, salt)

SpecDerive == Init /\ [][NextDerive]_vars

---------------------------------------------------------------------------
(* Client entropy cache *)

\* new Date(timestamp).getTime(), on the digits ToISOString keeps
ParseISO(d) ==
    (d[1] * 10 + d[2]) * 60000 + (d[3] * 10 + d[4]) * 1000
        + d[5] * 100 + d[6] * 10 + d[7]

\* The instants the client's clock shows: around the moment a value cached
\* at the first instant reaches the TTL, and well past it.
CacheClock ==
    {ClockStart + d :
        d \in {0, 1, CACHE_TTL_MS - 1, CACHE_TTL_MS, 2 * CACHE_TTL_MS}}

\* The timestamps a response of the endpoint may carry at instant t: the
\* created_at of a hardware sample or the server's clock, not after t.
ResponseStamps(t) ==
    {s \in CacheClock \cup {ClockStart - CACHE_TTL_MS} : s <= t}

\* The bodies of the endpoint's 200 responses.
Responses(t) ==
    {[source |-> "hardware", entropy_hex |-> ToHex(BodySeq),
      timestamp |-> ToISOString(s)] : s \in ResponseStamps(t)}
      \cup {SoftwareFallback(SoftA, s) : s \in ResponseStamps(t)}

\* A mutant of CacheHit: a value as old as the TTL is still served.
CacheHitAtTtl(cached, t) ==
    /\ cached # <<>>
    /\ t - ParseISO(cached[1].timestamp) <= CACHE_TTL_MS

\* The test fetchEntropy makes of the cache at instant t.
CacheHit(cached, t) ==
    /\ cached # <<>>
    /\ t - ParseISO(cached[1].timestamp) < CACHE_TTL_MS

\* fetchEntropy is called: it returns the cached value with its age, or
\* goes on to the endpoint.
FetchEntropy ==
    /\ cleared' = FALSE
    /\ IF CacheHit(cachedEntropy, now)
       THEN LET age == now - ParseISO(cachedEntropy[1].timestamp)
            IN /\ returned' =
                     <<[value |-> [cachedEntropy[1] EXCEPT !.age_ms = <<age>>],
                        live |-> FALSE, failure |-> ""]>>
               /\ UNCHANGED fetching
       ELSE /\ fetching < MaxInFlight
            /\ fetching' = fetching + 1
            /\ UNCHANGED returned
    /\ UNCHANGED <<serverVars, cryptoVars, cachedEntropy, cachedIn, received,
                   appVars>>

\* The endpoint answers 200 with body data: the value is cached and
\* returned with age_ms 0.
FetchResponds ==
    /\ fetching > 0
    /\ \E data \in Responses(now) :
          LET value == [source |-> data.source,
                        entropy_hex |-> data.entropy_hex,
                        timestamp |-> data.timestamp, age_ms |-> <<>>]
          IN /\ cachedEntropy' = <<value>>
             /\ returned' = <<[value |-> [value EXCEPT !.age_ms = <<0>>],
                               live |-> TRUE, failure |-> ""]>>
    /\ fetching' = fetching - 1
    /\ cachedIn' = logins
    /\ UNCHANGED <<serverVars, cryptoVars, cleared, received, appVars>>

\* How the call to the endpoint can fail: fetch rejects (no network), the
\* status is not OK (`if (!res.ok) throw`), res.json() rejects (a body
\* that is not JSON).
LiveFailures == {"network", "status", "body"}

\* A mutant of Fallback: the bytes are joined without padding each to two
\* digits.
FallbackUnpadded(bytes, t) ==
    [source |-> "software", entropy_hex |-> Join([i \in DOMAIN bytes |->
                                                   ByteHexNoPad(bytes[i])]),
     timestamp |-> ToISOString(t), age_ms |-> <<0>>]

\* The value the catch block builds from 32 random bytes at instant t.
Fallback(bytes, t) ==
    [source |-> "software", entropy_hex |-> ToHex(bytes),
     timestamp |-> ToISOString(t), age_ms |-> <<0>>]

\* A mutant of FetchFails: the fallback is returned and not cached.
FetchFailsUncached ==
    /\ fetching > 0
    /\ \E failure \in LiveFailures, bytes \in SoftBytes :
          returned' = <<[value |-> Fallback(bytes, now), live |-> TRUE,
                         failure |-> failure]>>
    /\ fetching' = fetching - 1
    /\ UNCHANGED <<serverVars, cryptoVars, cachedEntropy, cachedIn, cleared,
                   received, appVars>>

\* The call to the endpoint fails: the error is caught, a software value is
\* generated, cached and returned.
FetchFails ==
    /\ fetching > 0
    /\ \E failure \in LiveFailures, bytes \in SoftBytes :
          LET fallback == Fallback(bytes, now)
          IN /\ cachedEntropy' = <<fallback>>
             /\ returned' = <<[value |-> fallback, live |-> TRUE,
                               failure |-> failure]>>
    /\ fetching' = fetching - 1
    /\ cachedIn' = logins
    /\ UNCHANGED <<serverVars, cryptoVars, cleared, received, appVars>>

\* clearEntropyCache()
ClearEntropyCache ==
    /\ cachedEntropy' = <<>>
    /\ cleared' = TRUE
    /\ cachedIn' = 0
    /\ UNCHANGED <<serverVars, cryptoVars, fetching, returned, received,
                   appVars>>

\* The client's clock advances.
Advance ==
    /\ \E t \in CacheClock : t > now /\ now' = t
    /\ UNCHANGED <<store, req, latestEntropy, memLog, dbUp, clientVars>>

NextCache ==
    \/ FetchEntropy
    \/ FetchResponds
    \/ FetchFails
    \/ ClearEntropyCache
    \/ Advance

SpecCache == Init /\ [][NextCache]_vars

\* The same with the clock never stopping short of its last instant.  No
\* step of the endpoint is fair: fetch() is given no signal and no timer
\* runs beside it, so a call awaiting the endpoint goes on only when the
\* endpoint answers or the connection fails.
SpecCacheFair == SpecCache /\ WF_vars(Advance)

---------------------------------------------------------------------------
(* Application: signing in and out.  The entropy cache is a variable of    *)
(* the module entropy.ts: it lives as long as the page, across sessions.   *)

\* AuthPage: signInWithPassword succeeds, the auth listener of Index sets
\* the user and ChatApp is mounted.
SignIn ==
    /\ user = <<>>
    /\ logins < MaxLogins
    /\ user' = <<"user">>
    /\ logins' = logins + 1
    /\ UNCHANGED <<serverVars, cryptoVars, cacheVars, fileVars,
                   chatVars, keyVars>>

\* ChatApp.signOut: supabase.auth.signOut(), upon which the auth listener
\* of Index sets the user to null and ChatApp is unmounted.
SignOut ==
    /\ user # <<>>
    /\ user' = <<>>
    /\ UNCHANGED <<serverVars, cryptoVars, cacheVars, fileVars,
                   chatVars, logins,
                   keyVars>>

\* The entropy cache across sessions.
NextLogout ==
    \/ SignIn
    \/ SignOut
    \/ FetchEntropy
    \/ FetchResponds
    \/ FetchFails
    \/ ClearEntropyCache
    \/ Advance

SpecLogout == Init /\ [][NextLogout]_vars

---------------------------------------------------------------------------
(* The session-key variant of the client: Index derives one key when the   *)
(* user signs in and keeps it in its state; ChatWindow encrypts and        *)
(* decrypts every message with it.                                         *)

\* crypto.subtle.importKey("raw", keyBuffer, "AES-GCM") and
\* crypto.subtle.generateKey: the key is the 32 bytes it is made of.
ImportKey(raw) == [ikm |-> raw, salt |-> <<>>, info |-> "AES-GCM"]

\* What deriveSessionKey can return: the key the derive-key endpoint
\* answered with, under the source the answer names, or a key generated
\* locally when the call failed or was answered other than OK.
SessionKeys ==
    {[key |-> ImportKey(BodySeq), source |-> "hardware"],
     [key |-> ImportKey(SoftA), source |-> "software"],
     [key |-> ImportKey(SoftB), source |-> "software"]}

\* encryptMessage(plaintext, key, source) of the session-key variant
SessionEncryptMessage(plaintext, key, source, randomIv) ==
    [ciphertext |->
        BytesToBase64(AesGcmEncrypt(key, randomIv, TextEncode(plaintext))),
     iv |-> BytesToBase64(randomIv),
     entropySource |-> source]

\* decryptMessage(payload, key) of the session-key variant
SessionDecryptMessage(payload, key) ==
    LET ciphertext == Base64ToBytes(payload.ciphertext)
        iv == Base64ToBytes(payload.iv)
    IN IF ~ciphertext.ok \/ ~iv.ok
       THEN Throw("InvalidCharacterError")
       ELSE LET decrypted == AesGcmDecrypt(key, iv.bytes, ciphertext.bytes)
            IN IF ~decrypted.ok
               THEN Throw("OperationError")
               ELSE Return(TextDecode(decrypted.bytes))

\* A string shown in place of a message's text, and a decrypted text.
Marker(m) == [marker |-> m, units |-> <<>>]
Text(units) == [marker |-> "", units |-> units]

\* JavaScript's white space and line terminators among the code units of
\* the model: space, tab, line feed, carriage return, U+FEFF.
WhiteSpace == {32, 9, 10, 13, 65279}

RECURSIVE TrimStart(_)
TrimStart(s) ==
    IF s # <<>> /\ Head(s) \in WhiteSpace THEN TrimStart(Tail(s)) ELSE s

RECURSIVE TrimEnd(_)
TrimEnd(s) ==
    IF s # <<>> /\ s[Len(s)] \in WhiteSpace
    THEN TrimEnd(SubSeq(s, 1, Len(s) - 1)) ELSE s

\* s.trim()
Trim(s) == TrimEnd(TrimStart(s))

\* The texts typed into ChatWindow's input: "A" and a single space.
Inputs == {<<65>>, <<32>>}

\* The row ChatWindow.handleSend inserts for an encrypted payload.
Row(payload) ==
    [encrypted_content |-> payload.ciphertext, iv |-> payload.iv,
     entropy_source |-> payload.entropySource]

\* Rows inserted by other clients: a message encrypted under a session key
\* of theirs, and a row whose encrypted_content is not base64.
OtherRows ==
    {Row(SessionEncryptMessage(<<66>>, ImportKey(BodyOnes), "software", IvB)),
     [encrypted_content |-> <<"*">>, iv |-> BytesToBase64(IvB),
      entropy_source |-> "hardware"]}

\* insert(row): the table gives the row its id.
PgInsert(table, row) ==
    Append(table, [id |-> Len(table) + 1,
                   encrypted_content |-> row.encrypted_content,
                   iv |-> row.iv, entropy_source |-> row.entropy_source])

\* A mutant of Decrypted: the error of decryptMessage is not caught apart
\* from the text, and the ciphertext is shown as it is.
DecryptedRaw(msg, key) ==
    IF key = <<>> THEN Marker("[Encrypted]")
    ELSE LET r == SessionDecryptMessage(
                     [ciphertext |-> msg.encrypted_content, iv |-> msg.iv,
                      entropySource |-> msg.entropy_source], key[1])
         IN IF r.ok THEN Text(r.value) ELSE Text(<<42>>)

\* ChatWindow: what is shown for the row msg, key being the sessionKey
\* prop: "[Encrypted]" without a key, the decrypted text, or the marker of
\* the catch block.
Decrypted(msg, key) ==
    IF key = <<>> THEN Marker("[Encrypted]")
    ELSE LET r == SessionDecryptMessage(
                     [ciphertext |-> msg.encrypted_content, iv |-> msg.iv,
                      entropySource |-> msg.entropy_source], key[1])
         IN IF r.ok THEN Text(r.value)
            ELSE Marker("[Cannot decrypt - different session key]")

\* The auth listener of Index sets the user; ChatWindow is mounted with no
\* messages and subscribes to the INSERT events from now on; the effect on
\* [user] calls deriveSessionKey(user.id), which awaits the endpoint.
IndexSignIn ==
    /\ user = <<>>
    /\ logins < MaxLogins
    /\ user' = <<"user">>
    /\ logins' = logins + 1
    /\ deriving' = deriving + 1
    /\ windowMessages' = <<>>
    /\ delivered' = Len(pgMessages)
    /\ UNCHANGED <<serverVars, cryptoVars, cacheVars, fileVars,
                   chatVars, sessionKey,
                   entropySource, pgMessages>>

\* deriveSessionKey returns and init() stores the key and its source.
DeriveSessionKeyReturns ==
    /\ deriving > 0
    /\ \E k \in SessionKeys :
          /\ sessionKey' = <<k.key>>
          /\ entropySource' = k.source
    /\ deriving' = deriving - 1
    /\ UNCHANGED <<serverVars, cryptoVars, cacheVars, fileVars,
                   chatVars, sessionVars,
                   pgMessages, windowMessages, delivered>>

\* Index.handleLogout: signOut(), setUser(null), setSessionKey(null);
\* ChatWindow is unmounted.
HandleLogout ==
    /\ user # <<>>
    /\ user' = <<>>
    /\ sessionKey' = <<>>
    /\ windowMessages' = <<>>
    /\ UNCHANGED <<serverVars, cryptoVars, cacheVars, fileVars,
                   chatVars, logins,
                   entropySource,
                   deriving, pgMessages, delivered>>

\* ChatWindow.handleSend: the input is encrypted with the session key and
\* the row inserted.
WindowHandleSend(input) ==
    /\ user # <<>>
    /\ Trim(input) # <<>>
    /\ sessionKey # <<>>
    /\ Len(pgMessages) < MaxRows
    /\ pgMessages' =
          PgInsert(pgMessages,
                   Row(SessionEncryptMessage(input, sessionKey[1],
                                             entropySource, IvA)))
    /\ UNCHANGED <<serverVars, cryptoVars, cacheVars, fileVars,
                   chatVars,
                   sessionVars, sessionKey,
                   entropySource, deriving, windowMessages, delivered>>

\* Another client inserts a row.
OtherInsert(row) ==
    /\ Len(pgMessages) < MaxRows
    /\ pgMessages' = PgInsert(pgMessages, row)
    /\ UNCHANGED <<serverVars, cryptoVars, cacheVars, fileVars,
                   chatVars,
                   sessionVars, sessionKey,
                   entropySource, deriving, windowMessages, delivered>>

\* .limit(n) on rows in ascending order of created_at: the first n
Limit(rows, n) == SubSeq(rows, 1, IF Len(rows) < n THEN Len(rows) ELSE n)

\* The entry of ChatWindow's messages state for the row msg.
WindowEntry(msg, key) == [id |-> msg.id, decrypted |-> Decrypted(msg, key)]

\* ChatWindow.loadMessages, run by the effect on [sessionKey]: the first
\* 100 rows are selected, each is decrypted on its own (Promise.all over
\* tasks that catch their own errors) and the list replaces the state.
WindowLoadMessages ==
    /\ user # <<>>
    /\ LET data == Limit(pgMessages, 100)
       IN windowMessages' =
             [i \in DOMAIN data |-> WindowEntry(data[i], sessionKey)]
    /\ UNCHANGED <<serverVars, cryptoVars, cacheVars, fileVars,
                   chatVars,
                   sessionVars, sessionKey,
                   entropySource, deriving, pgMessages, delivered>>

\* The realtime callback: the INSERT event of the next row is handled, the
\* row decrypted and appended to the state.
WindowOnInsert ==
    /\ user # <<>>
    /\ delivered < Len(pgMessages)
    /\ delivered' = delivered + 1
    /\ windowMessages' =
          Append(windowMessages,
                 WindowEntry(pgMessages[delivered + 1], sessionKey))
    /\ UNCHANGED <<serverVars, cryptoVars, cacheVars, fileVars,
                   chatVars,
                   sessionVars, sessionKey,
                   entropySource, deriving, pgMessages>>

NextSession ==
    \/ IndexSignIn
    \/ DeriveSessionKeyReturns
    \/ HandleLogout
    \/ \E input \in Inputs : WindowHandleSend(input)
    \/ \E row \in OtherRows : OtherInsert(row)
    \/ WindowLoadMessages
    \/ WindowOnInsert

SpecSession == Init /\ [][NextSession]_vars

---------------------------------------------------------------------------
(* ChatApp: messages are encrypted one by one with the entropy value that  *)
(* fetchEntropy returned, stored in the collection messages through the    *)
(* function mongo-messages, and loaded by polling.                         *)

\* JSON.stringify of an object of strings and JSON.parse of a stored
\* encrypted_payload: text that is not JSON makes parse throw.
JsonStringify(object) == [json |-> TRUE, value |-> object]
NotJson ==
    [json |-> FALSE,
     value |-> [ciphertext |-> <<>>, salt |-> <<>>, entropy_hex |-> <<>>]]
JsonParse(text) ==
    IF text.json THEN Return(text.value) ELSE Throw("SyntaxError")

\* What fetchEntropy returned to handleSend.
ChatEntropy == [source |-> "hardware", entropy_hex |-> HexDigits(BodySeq)]

\* handleSend, from the encryption to the body it posts: text is
\* inputText.trim().
SendBody(roomId, text, entropy) ==
    LET e == EncryptMessage(text, entropy.entropy_hex, SoftA, IvA)
    IN [room_id |-> roomId,
        encrypted_payload |->
            JsonStringify([ciphertext |-> e.ciphertext, salt |-> e.salt,
                           entropy_hex |-> entropy.entropy_hex]),
        iv |-> e.iv, entropy_source |-> entropy.source]

\* The texts typed into ChatApp's input: "A" after a byte order mark, an
\* unpaired surrogate, a single space.
ChatInputs == {<<65279, 65>>, <<55357>>, <<32>>}

\* The bodies handleSend posts for these, computed once.
SendBodies ==
    [text \in {Trim(input) : input \in ChatInputs} \ {<<>>} |->
        SendBody("", text, ChatEntropy)]

\* Bodies posted by other clients, made from the body of "A": the last bit
\* of the ciphertext flipped, another entropy_hex, a salt that is not
\* base64, an encrypted_payload that is not JSON.
OtherBodies ==
    LET b == SendBodies[<<65>>]
        p == b.encrypted_payload.value
        tampered == BytesToBase64(
                        LET c == Base64ToBytes(p.ciphertext).bytes
                        IN FlipBit(c, Len(c)))
    IN {[b EXCEPT !.encrypted_payload =
                     JsonStringify([p EXCEPT !.ciphertext = tampered])],
        [b EXCEPT !.encrypted_payload =
                     JsonStringify([p EXCEPT !.entropy_hex =
                                                HexDigits(SoftA)])],
        [b EXCEPT !.encrypted_payload =
                     JsonStringify([p EXCEPT !.salt = <<"*">>])],
        [b EXCEPT !.encrypted_payload = NotJson]}

\* A mutant of DecodeEnvelope: a failed message is shown as empty text.
DecodeEnvelopeBlank(payload, iv) ==
    LET parsed == JsonParse(payload)
    IN IF ~parsed.ok THEN Text(<<>>)
       ELSE LET r == DecryptMessage(parsed.value.ciphertext, iv,
                                    parsed.value.salt,
                                    parsed.value.entropy_hex)
            IN IF r.ok THEN Text(r.value) ELSE Text(<<>>)

\* decodeMsg on the fields it reads: the plaintext, or the marker of the
\* catch block when JSON.parse or decryptMessage throws.
DecodeEnvelope(payload, iv) ==
    LET parsed == JsonParse(payload)
    IN IF ~parsed.ok THEN Marker("[DECRYPTION FAILED]")
       ELSE LET r == DecryptMessage(parsed.value.ciphertext, iv,
                                    parsed.value.salt,
                                    parsed.value.entropy_hex)
            IN IF r.ok THEN Text(r.value)
               ELSE Marker("[DECRYPTION FAILED]")

\* The envelopes of the model, and what decodeMsg makes of each, computed
\* once.
Envelopes ==
    {<<b.encrypted_payload, b.iv>> :
        b \in {SendBodies[text] : text \in DOMAIN SendBodies}
                 \cup OtherBodies}
Decoded == [e \in Envelopes |-> DecodeEnvelope(e[1], e[2])]

\* A mutant of DecodeMsg: the key material is not the stored entropy_hex
\* but what a fetch without a live sample returns.
DecodeMsgFetched(msg) ==
    LET parsed == JsonParse(msg.encrypted_payload)
        payload == IF parsed.ok
                   THEN JsonStringify([parsed.value EXCEPT
                                         !.entropy_hex = HexDigits(SoftA)])
                   ELSE msg.encrypted_payload
    IN [id |-> msg.id, room_id |-> msg.room_id,
        plaintext |-> DecodeEnvelope(payload, msg.iv)]

\* decodeMsg(msg): { ...msg, plaintext }
DecodeMsg(msg) ==
    LET e == <<msg.encrypted_payload, msg.iv>>
    IN [id |-> msg.id, room_id |-> msg.room_id,
        plaintext |-> IF e \in Envelopes THEN Decoded[e]
                      ELSE DecodeEnvelope(e[1], e[2])]

\* The rooms of the model.
ChatRooms == {"r1", "r2"}

\* The sequence s without its k-th element.
Remove(s, k) == SubSeq(s, 1, k - 1) \o SubSeq(s, k + 1, Len(s))

\* mongo-messages POST, up to the insertOne: the document is built from the
\* body with created_at the server's new Date().
MongoPost(body, roomId) ==
    /\ Len(mongoMessages) + Len(posting) < MaxRows
    /\ posting' = Append(posting,
                         [id |-> 0, room_id |-> roomId,
                          encrypted_payload |-> body.encrypted_payload,
                          iv |-> body.iv,
                          entropy_source |-> body.entropy_source,
                          created_at |-> ToISOString(now)])
    /\ UNCHANGED <<mongoMessages, activeRoom, messages, lastTimestampRef,
                   loads>>

\* ChatApp.handleSend in the active room: the trimmed input is encrypted
\* with the entropy fetchEntropy returned and posted.
ChatHandleSend(input) ==
    /\ Trim(input) # <<>>
    /\ activeRoom # ""
    /\ MongoPost(SendBodies[Trim(input)], activeRoom)
    /\ UNCHANGED <<serverVars, cryptoVars, cacheVars, fileVars,
                   sessionVars, keyVars>>

\* Another client posts to a room.
OtherPost(body, roomId) ==
    /\ MongoPost(body, roomId)
    /\ UNCHANGED <<serverVars, cryptoVars, cacheVars, fileVars,
                   sessionVars, keyVars>>

\* messages.insertOne(doc) of the k-th POST in progress, and its 201.
MongoInsertOne(k) ==
    /\ k \in DOMAIN posting
    /\ mongoMessages' =
          Append(mongoMessages,
                 [posting[k] EXCEPT !.id = Len(mongoMessages) + 1])
    /\ posting' = Remove(posting, k)
    /\ UNCHANGED <<serverVars, cryptoVars, cacheVars, fileVars,
                   sessionVars, keyVars,
                   activeRoom, messages, lastTimestampRef, loads>>

RECURSIVE SortByCreatedAt(_)
\* .sort({ created_at: 1 }): documents with equal created_at are left in
\* the order of their insertion.
SortByCreatedAt(rows) ==
    IF rows = <<>> THEN <<>>
    ELSE LET rest == SortByCreatedAt(Tail(rows))
             h == Head(rows)
             k == Cardinality({i \in DOMAIN rest :
                                 StrLess(rest[i].created_at, h.created_at)})
         IN SubSeq(rest, 1, k) \o <<h>> \o SubSeq(rest, k + 1, Len(rest))

\* A mutant of Find: documents of every room match.
FindEveryRoom(col, roomId, since) ==
    SelectSeq(col, LAMBDA m :
        since = <<>> \/ StrLess(since[1], m.created_at))

\* find({ room_id: roomId, created_at: { $gt: since } }), the bound on
\* created_at being left out when since is not given
Find(col, roomId, since) ==
    SelectSeq(col, LAMBDA m :
        /\ m.room_id = roomId
        /\ since = <<>> \/ StrLess(since[1], m.created_at))

\* mongo-messages GET with limit=80, as listMessages sends it
ListMessages(roomId, since) ==
    Limit(SortByCreatedAt(Find(mongoMessages, roomId, since)), 80)

\* A call of loadMessages(roomId, initial) that has sent its request: since
\* is undefined for the initial load and lastTimestampRef.current otherwise.
NewLoad(roomId, initial) ==
    [roomId |-> roomId, initial |-> initial,
     since |-> IF initial THEN <<>> ELSE lastTimestampRef,
     pc |-> "sent", raw |-> <<>>]

\* The user selects a room: the effect on [activeRoom] resets the cursor and
\* the list, starts the initial load and the 2-second interval.  Loads of
\* the room left behind are not cancelled.
SelectRoom(roomId) ==
    /\ roomId # activeRoom
    /\ Len(loads) < MaxLoads
    /\ activeRoom' = roomId
    /\ lastTimestampRef' = <<>>
    /\ messages' = <<>>
    /\ loads' = Append(loads, NewLoad(roomId, TRUE))
    /\ UNCHANGED <<serverVars, cryptoVars, cacheVars, fileVars,
                   sessionVars, keyVars,
                   mongoMessages, posting>>

\* The interval fires: loadMessages(activeRoom.id, false).
Poll ==
    /\ activeRoom # ""
    /\ Len(loads) < MaxLoads
    /\ loads' = Append(loads, NewLoad(activeRoom, FALSE))
    /\ UNCHANGED <<serverVars, cryptoVars, cacheVars, fileVars,
                   sessionVars, keyVars,
                   mongoMessages, posting, activeRoom, messages,
                   lastTimestampRef>>

\* The server answers the k-th load's GET.
LoadResponds(k) ==
    /\ k \in DOMAIN loads
    /\ loads[k].pc = "sent"
    /\ loads' = [loads EXCEPT
                   ![k].pc = "got",
                   ![k].raw = ListMessages(loads[k].roomId, loads[k].since)]
    /\ UNCHANGED <<serverVars, cryptoVars, cacheVars, fileVars,
                   sessionVars, keyVars,
                   mongoMessages, posting, activeRoom, messages,
                   lastTimestampRef>>

\* listMessages throws (network error or a status that is not ok): the
\* load ends in its finally block.
LoadFails(k) ==
    /\ k \in DOMAIN loads
    /\ loads[k].pc = "sent"
    /\ loads' = Remove(loads, k)
    /\ UNCHANGED <<serverVars, cryptoVars, cacheVars, fileVars,
                   sessionVars, keyVars,
                   mongoMessages, posting, activeRoom, messages,
                   lastTimestampRef>>

\* The k-th load continues after its await: nothing on an empty answer,
\* else the decoded messages replace (initial) or extend the list and the
\* cursor becomes the created_at of the last message received.
FinishLoad(k) ==
    /\ k \in DOMAIN loads
    /\ loads[k].pc = "got"
    /\ LET raw == loads[k].raw
           decoded == [i \in DOMAIN raw |-> DecodeMsg(raw[i])]
       IN IF raw = <<>>
          THEN UNCHANGED <<messages, lastTimestampRef>>
          ELSE /\ messages' = IF loads[k].initial THEN decoded
                              ELSE messages \o decoded
               /\ lastTimestampRef' = <<raw[Len(raw)].created_at>>
    /\ loads' = Remove(loads, k)
    /\ UNCHANGED <<serverVars, cryptoVars, cacheVars, fileVars,
                   sessionVars, keyVars,
                   mongoMessages, posting, activeRoom>>

\* ChatApp with one load at a time, other clients posting payloads of every
\* kind to the first room.
NextChatSeq ==
    \/ \E input \in ChatInputs : ChatHandleSend(input)
    \/ \E body \in OtherBodies : OtherPost(body, "r1")
    \/ \E k \in 1..MaxRows : MongoInsertOne(k)
    \/ \E roomId \in ChatRooms : loads = <<>> /\ SelectRoom(roomId)
    \/ loads = <<>> /\ Poll
    \/ \E k \in 1..MaxLoads : LoadResponds(k)
    \/ \E k \in 1..MaxLoads : LoadFails(k)
    \/ \E k \in 1..MaxLoads : FinishLoad(k)

SpecChatSeq == Init /\ [][NextChatSeq]_vars

\* ChatApp with two rooms, overlapping loads and the clock.
NextChat ==
    \/ \E roomId \in ChatRooms : OtherPost(SendBodies[<<65>>], roomId)
    \/ \E k \in 1..MaxRows : MongoInsertOne(k)
    \/ \E roomId \in ChatRooms : SelectRoom(roomId)
    \/ Poll
    \/ \E k \in 1..MaxLoads : LoadResponds(k)
    \/ \E k \in 1..MaxLoads : LoadFails(k)
    \/ \E k \in 1..MaxLoads : FinishLoad(k)
    \/ Tick

SpecChat == Init /\ [][NextChat]_vars

---------------------------------------------------------------------------
(* fetchEntropy against the store-backed endpoint.  The clocks of client   *)
(* and server are one clock, and no time passes while a request is on its  *)
(* way or being handled.  The device posts when no request is being        *)
(* handled; the calls of fetchEntropy overlap.                             *)

\* The payloads the device posts.
FreshBodies == {BodySeq, SoftB}

\* The instants of the clock: around the cache's TTL and the window.
FreshClock ==
    {ClockStart + d :
        d \in {0, 5000, CACHE_TTL_MS - 1, CACHE_TTL_MS, ENTROPY_MAX_AGE_MS,
               ENTROPY_MAX_AGE_MS + 1}}

\* The GET requests that have arrived.
Gets == {n \in Requests : req[n].method = "GET"}

\* The GET of a fetchEntropy call that is on its way arrives.
FreshGet(n) ==
    /\ Cardinality(Gets) < fetching + Cardinality(received)
    /\ Get(n, "fetchEntropy")

\* fetchEntropy reads the 200 response to request n: the value is cached
\* and returned with age_ms 0.
FetchReads(n) ==
    /\ fetching > 0
    /\ n \in Gets \ received
    /\ req[n].pc = "done" /\ req[n].status = 200
    /\ LET value == [source |-> req[n].source,
                     entropy_hex |-> req[n].entropy_hex,
                     timestamp |-> req[n].timestamp, age_ms |-> <<>>]
       IN /\ cachedEntropy' = <<value>>
          /\ returned' = <<[value |-> [value EXCEPT !.age_ms = <<0>>],
                            live |-> TRUE, failure |-> ""]>>
    /\ fetching' = fetching - 1
    /\ received' = received \cup {n}
    /\ cachedIn' = logins
    /\ UNCHANGED <<serverVars, cryptoVars, cleared, appVars>>

\* Time passes while no call is on its way or being handled.
FreshAdvance ==
    /\ fetching = 0
    /\ InFlight = {}
    /\ \E t \in FreshClock : t > now /\ now' = t
    /\ UNCHANGED <<store, req, latestEntropy, memLog, dbUp, clientVars>>

NextFresh ==
    \/ \E n \in Requests, body \in FreshBodies :
          InFlight = {} /\ Post(n, body)
    \/ \E n \in Requests : PostInsertOne(n)
    \/ FetchEntropy
    \/ \E n \in Requests : FreshGet(n)
    \/ \E n \in Requests : GetFindOne(n, SoftBytesOne)
    \/ \E n \in Requests : GetUpdateOne(n)
    \/ \E n \in Requests : FetchReads(n)
    \/ FreshAdvance

SpecFresh == Init /\ [][NextFresh]_vars

---------------------------------------------------------------------------
(* FileTransfer: a file is encrypted with the entropy value fetchEntropy   *)
(* returned, stored in the bucket encrypted-files next to a .meta object,  *)
(* and recorded through mongo-files.  A path is a number, the n-th upload   *)
(* writing to path n; an object of the bucket is the pair of what is       *)
(* stored at a path and at the path with .meta appended.                   *)

\* The path of the next upload.
NextPath == Cardinality({o.path : o \in bucket}) + 1

\* What storage.upload can answer.
UploadResults == {"ok", "error"}

\* encryptFile(file, entropyHex), computed once for each file and value.
EncryptedFiles ==
    [file \in FileBuffers,
     entropyHex \in {HexDigits(bytes) : bytes \in FreshBodies \cup SoftBytesOne}
        |-> EncryptFile(file, entropyHex, SoftA, IvA)]
Encrypted(file, entropyHex) == EncryptedFiles[file, entropyHex]

\* The .meta object handleUpload writes next to the encrypted file:
\* JSON.stringify({ salt, entropy_hex }), computed once as well.
MetaBlobs ==
    [file \in FileBuffers,
     entropyHex \in {HexDigits(bytes) : bytes \in FreshBodies \cup SoftBytesOne}
        |-> JsonStringify([salt |-> EncryptedFiles[file, entropyHex].salt,
                           entropy_hex |-> entropyHex])]

\* FileTransfer.handleUpload with the value entropy that fetchEntropy
\* returned: both uploads are sent, only the first result is looked at, and
\* the record is saved unless that result is an error or saveFileMeta
\* throws.
HandleUpload(file, entropy, blobResult, metaResult, saved) ==
    /\ NextPath <= MaxRows
    /\ LET e == Encrypted(file, entropy.entropy_hex)
           metaBlob == MetaBlobs[file, entropy.entropy_hex]
       IN /\ bucket' =
                IF blobResult = "error" /\ metaResult = "error" THEN bucket
                ELSE bucket \cup
                       {[path |-> NextPath,
                         blob |-> IF blobResult = "ok"
                                  THEN <<e.ciphertext>> ELSE <<>>,
                         meta |-> IF metaResult = "ok"
                                  THEN <<metaBlob>> ELSE <<>>]}
          /\ fileMeta' =
                IF blobResult = "ok" /\ saved
                THEN Append(fileMeta,
                            [encrypted_path |-> NextPath, iv |-> e.iv,
                             original |-> file,
                             entropy_source |-> entropy.source])
                ELSE fileMeta
    /\ UNCHANGED <<serverVars, cryptoVars, cacheVars, sessionVars, keyVars,
                   chatVars, downloaded>>

\* storage.download(path) and download(path + ".meta") from the bucket b
Stored(b, path) ==
    IF \E o \in b : o.path = path
    THEN CHOOSE o \in b : o.path = path
    ELSE [path |-> path, blob |-> <<>>, meta |-> <<>>]

\* The body of handleDownload for the record f: the decrypted bytes, or the
\* error its catch block reports.
Download(b, f) ==
    LET o == Stored(b, f.encrypted_path)
    IN IF o.blob = <<>> THEN Throw("Download failed")
       ELSE IF o.meta = <<>> THEN Throw("Metadata missing")
       ELSE LET meta == JsonParse(o.meta[1])
            IN IF ~meta.ok THEN Throw("SyntaxError")
               ELSE DecryptFile(o.blob[1], f.iv, meta.value.salt,
                                meta.value.entropy_hex)

\* FileTransfer.handleDownload of the k-th listed file.
HandleDownload(k) ==
    /\ k \in DOMAIN fileMeta
    /\ downloaded' = <<Download(bucket, fileMeta[k])>>
    /\ UNCHANGED <<serverVars, cryptoVars, cacheVars, sessionVars, keyVars,
                   chatVars, bucket, fileMeta>>

NextFiles ==
    \/ \E file \in FileBuffers, blobResult, metaResult \in UploadResults,
          saved \in BOOLEAN :
          HandleUpload(file, ChatEntropy, blobResult, metaResult, saved)
    \/ \E k \in 1..MaxRows : HandleDownload(k)

SpecFiles == Init /\ [][NextFiles]_vars

---------------------------------------------------------------------------
(* The entropy value of a message or a file: ChatApp.handleSend and        *)
(* FileTransfer.handleUpload continue with the value fetchEntropy returned *)
(* to them, from the cache, from the store-backed endpoint or from the     *)
(* catch block.                                                            *)

\* The string hex as the client's crypto reads it, character by character;
\* the characters of each string of the model are computed once.
CharsOf == [bytes \in DOMAIN HexOf |-> HexDigits(bytes)]
Chars(hex) == CharsOf[CHOOSE bytes \in DOMAIN HexOf : HexOf[bytes] = hex]

\* A mutant of Entropy: the source read is "hardware" whatever the value's.
EntropyHardware(value) ==
    [source |-> "hardware", entropy_hex |-> Chars(value.entropy_hex)]

\* The part of an entropy value that handleSend and handleUpload read.
Entropy(value) ==
    [source |-> value.source, entropy_hex |-> Chars(value.entropy_hex)]

\* The entropy values of the model, and for each the body handleSend posts
\* for the message "A" and the encryption of the one-byte file 0xFF,
\* computed once.
Entropies ==
    {[source |-> s, entropy_hex |-> HexDigits(bytes)] :
        s \in {"hardware", "software"}, bytes \in FreshBodies \cup SoftBytesOne}
LabelBodies == [e \in Entropies |-> SendBody("r1", <<65>>, e)]

\* The call awaiting request n fails after the request was handled: the
\* connection is lost or the body cannot be read.  The catch block's value
\* is cached and returned.
FreshFails(n) ==
    /\ fetching > 0
    /\ n \in Gets \ received
    /\ req[n].pc = "done"
    /\ \E failure \in {"network", "body"}, bytes \in SoftBytesOne :
          LET fallback == Fallback(bytes, now)
          IN /\ cachedEntropy' = <<fallback>>
             /\ returned' = <<[value |-> fallback, live |-> TRUE,
                               failure |-> failure]>>
    /\ fetching' = fetching - 1
    /\ received' = received \cup {n}
    /\ cachedIn' = logins
    /\ UNCHANGED <<serverVars, cryptoVars, cleared, appVars>>

\* handleSend after fetchEntropy has returned: the message is encrypted and
\* posted with the value's source.  The user acts while nothing else is
\* under way.
LabelHandleSend ==
    /\ returned # <<>>
    /\ fetching = 0 /\ InFlight = {} /\ posting = <<>>
    /\ MongoPost(LabelBodies[Entropy(returned[1].value)], "r1")
    /\ UNCHANGED <<serverVars, cryptoVars, cacheVars, sessionVars, keyVars,
                   fileVars>>

\* handleUpload after fetchEntropy has returned, its uploads and
\* saveFileMeta succeeding.  The user uploads no more files than messages
\* were sent.
LabelHandleUpload ==
    /\ returned # <<>>
    /\ Len(fileMeta) < Len(mongoMessages)
    /\ fetching = 0 /\ InFlight = {} /\ posting = <<>>
    /\ HandleUpload(<<255>>, Entropy(returned[1].value), "ok", "ok", TRUE)

NextLabel ==
    \/ \E n \in Requests, body \in FreshBodies :
          InFlight = {} /\ Post(n, body)
    \/ \E n \in Requests : PostInsertOne(n)
    \/ FetchEntropy
    \/ \E n \in Requests : InFlight = {} /\ FreshGet(n)
    \/ \E n \in Requests : GetFindOne(n, SoftBytesOne)
    \/ \E n \in Requests : GetUpdateOne(n)
    \/ \E n \in Requests : FetchReads(n)
    \/ \E n \in Requests : FreshFails(n)
    \/ LabelHandleSend
    \/ \E k \in 1..MaxRows : MongoInsertOne(k)
    \/ LabelHandleUpload
    \/ fetching = 0 /\ InFlight = {} /\ ClearEntropyCache

SpecLabel == Init /\ [][NextLabel]_vars

---------------------------------------------------------------------------
(* Properties *)

Done(n) == req[n].pc = "done"
StorePost(n) == Done(n) /\ req[n].ep = "store" /\ req[n].method = "POST"
StoreGet(n) == Done(n) /\ req[n].ep = "store" /\ req[n].method = "GET"
MemoryPost(n) == Done(n) /\ req[n].ep = "memory" /\ req[n].method = "POST"
Hardware(n) == StoreGet(n) /\ req[n].source = "hardware"
Software(n) == StoreGet(n) /\ req[n].source = "software"
Accepted(n) == StorePost(n) /\ req[n].status = 200

\* The age, at the Date.now() of GET request n, of stored sample i.
AgeAt(n, i) == req[n].at - ParseISO(store[i].created_at)

\* The samples issuance may select for GET request n: unused, hardware and
\* created no more than the freshness window before the request's Date.now().
Eligible(n) ==
    {i \in DOMAIN store :
        /\ ~store[i].used
        /\ store[i].source = "hardware"
        /\ AgeAt(n, i) <= ENTROPY_MAX_AGE_MS}

\* GET request n takes the step that runs its findOne.
Selects(n) == req[n].pc = "get_find" /\ req'[n].pc # "get_find"

(* C1: under concurrent GET requests no stored sample is returned to two   *)
(* callers: no two hardware responses are built from the same document.    *)
C1_NoSampleIssuedTwice ==
    \A m, n \in Requests :
        (m # n /\ Hardware(m) /\ Hardware(n)) => req[m].sample # req[n].sample

(* C2: in every reachable state of the store, concurrent POST requests     *)
(* included, no two stored samples have the same entropy_hex.              *)
C2_UniqueDigests ==
    \A i, j \in DOMAIN store :
        i # j => store[i].entropy_hex # store[j].entropy_hex

(* C3: requests handled one after the other: the first POST of a 32-byte   *)
(* payload e is accepted with 200, every later POST of e is rejected with  *)
(* 409, and the store then holds exactly one sample with e's digest.       *)
C3_SecondIngestRejected ==
    \A n \in Requests :
        (StorePost(n) /\ Len(req[n].body) = ENTROPY_BYTES) =>
            /\ req[n].status =
                 IF \E m \in Requests :
                        m < n /\ StorePost(m) /\ req[m].body = req[n].body
                 THEN 409 ELSE 200
            /\ Cardinality({i \in DOMAIN store :
                   store[i].entropy_hex = ToHex(req[n].body)}) = 1

\* e was submitted twice in sequence, the second time after its sample had
\* been issued and marked used.
C3_Witness ==
    \E m, n \in Requests :
        /\ m < n
        /\ StorePost(m) /\ StorePost(n)
        /\ req[m].body = BodySeq /\ req[n].body = BodySeq
        /\ req[m].status = 200 /\ req[n].status = 409
        /\ \E g \in Requests :
              m < g /\ g < n /\ Hardware(g)
                /\ req[g].entropy_hex = ToHex(BodySeq)

(* C4: requests handled one after the other: no stored sample is returned  *)
(* by two issuance calls; a returned sample is marked used, and a sample   *)
(* that a GET has selected was unused when it was selected.                *)
C4_NeverReissued ==
    /\ \A m, n \in Requests :
          (m < n /\ Hardware(m) /\ Hardware(n)) =>
              req[m].sample # req[n].sample
    /\ \A n \in Requests : Hardware(n) => store[req[n].sample].used
    /\ \A n \in Requests :
          req[n].pc = "get_update" => ~store[req[n].fresh[1]._id].used

\* A sample was returned, and a later GET arrived while that sample was
\* still inside the freshness window.
C4_Witness ==
    \E m, n \in Requests :
        /\ m < n /\ Hardware(m) /\ StoreGet(n)
        /\ AgeAt(n, req[m].sample) <= ENTROPY_MAX_AGE_MS

(* C5: a POST whose body is not exactly 32 bytes long (the empty body      *)
(* included) is answered 400 by either endpoint, in the step it arrives,   *)
(* and neither the store nor the latestEntropy slot nor the in-memory      *)
(* endpoint's log is changed by it.                                        *)
C5_BadSizeRejected ==
    [][\A n \in Requests :
          (req'[n].method = "POST" /\ Len(req'[n].body) # 32) =>
              /\ req'[n].pc = "done"
              /\ req'[n].status = 400
              /\ req[n].pc = "new" =>
                    /\ store' = store
                    /\ latestEntropy' = latestEntropy
                    /\ memLog' = memLog]_vars

\* Both endpoints have rejected a body of the wrong size, the store-backed
\* one the empty body, while the store held a sample.
C5_Witness ==
    /\ store # <<>>
    /\ \E n \in Requests :
          StorePost(n) /\ req[n].body = BodyEmpty /\ req[n].status = 400
    /\ \E n \in Requests :
          MemoryPost(n) /\ Len(req[n].body) = 33 /\ req[n].status = 400

(* C6: the store is append-only and the used flag monotonic: no step       *)
(* deletes a sample or changes its _id, entropy_hex, source or created_at, *)
(* and a used flag that is true stays true (so it changes at most once).   *)
C6_AppendOnly ==
    [][/\ Len(store') >= Len(store)
       /\ \A i \in DOMAIN store :
             /\ store'[i]._id = store[i]._id
             /\ store'[i].entropy_hex = store[i].entropy_hex
             /\ store'[i].source = store[i].source
             /\ store'[i].created_at = store[i].created_at
             /\ store[i].used => store'[i].used]_vars

\* A sample was marked used and another sample was ingested after it.
C6_Witness ==
    /\ Len(store) >= 2
    /\ store[1].used
    /\ ~store[2].used

(* C7: when the findOne of a GET runs and some sample is unused, hardware  *)
(* and within 30 s of the request's Date.now(), the GET selects one of     *)
(* these with the greatest created_at and answers with it as hardware;     *)
(* when there is none it answers software.                                 *)
C7_MostRecentFresh ==
    [][\A n \in Requests :
          /\ Selects(n) =>
                IF Eligible(n) # {}
                THEN /\ req'[n].pc = "get_update"
                     /\ LET f == req'[n].fresh[1]
                        IN /\ f._id \in Eligible(n)
                           /\ f = store[f._id]
                           /\ \A j \in Eligible(n) :
                                 ParseISO(store[j].created_at)
                                     <= ParseISO(f.created_at)
                ELSE req'[n].pc = "done" /\ req'[n].source = "software"
          /\ (req[n].pc = "get_update" /\ req'[n].pc # "get_update") =>
                /\ req'[n].pc = "done"
                /\ req'[n].status = 200
                /\ req'[n].source = "hardware"
                /\ req'[n].sample = req[n].fresh[1]._id
                /\ req'[n].entropy_hex = req[n].fresh[1].entropy_hex
                /\ req'[n].timestamp = req[n].fresh[1].created_at]_vars

\* A GET selected a sample while an older sample was eligible too.
C7_Witness ==
    \E n \in Requests :
        /\ req[n].pc = "get_update"
        /\ \E j \in DOMAIN store :
              /\ j < req[n].fresh[1]._id
              /\ ~store[j].used
              /\ AgeAt(n, j) <= ENTROPY_MAX_AGE_MS
              /\ ParseISO(store[j].created_at)
                    < ParseISO(req[n].fresh[1].created_at)

(* C8: a hardware response never carries a sample created more than 30 s   *)
(* (ENTROPY_MAX_AGE_MS) before the request's Date.now(); a sample is used  *)
(* only if it was returned to a request made within its window, so one     *)
(* that aged past the window unissued is not issued to any later request   *)
(* and stays unused.                                                       *)
C8_NeverStale ==
    /\ \A n \in Requests :
          Hardware(n) =>
              req[n].at - ParseISO(req[n].timestamp) <= ENTROPY_MAX_AGE_MS
    /\ \A n \in Requests :
          req[n].pc = "get_update" =>
              req[n].at - ParseISO(req[n].fresh[1].created_at)
                  <= ENTROPY_MAX_AGE_MS
    /\ \A i \in DOMAIN store :
          store[i].used =>
              \E n \in Requests :
                  /\ Hardware(n)
                  /\ req[n].sample = i
                  /\ AgeAt(n, i) <= ENTROPY_MAX_AGE_MS

\* A sample aged past the window unissued; a GET made after that was
\* answered software and the sample is still unused.
C8_Witness ==
    \E n \in Requests, i \in DOMAIN store :
        /\ Software(n)
        /\ ~store[i].used
        /\ AgeAt(n, i) > ENTROPY_MAX_AGE_MS
        /\ \A j \in DOMAIN store : j # i => store[j].used

(* C9: when the findOne of a GET runs and no sample is unused, hardware    *)
(* and within the window, the GET answers 200 with source software and an  *)
(* entropy_hex of 64 characters, and the store is unchanged.               *)
C9_SoftwareFallback ==
    [][\A n \in Requests :
          (Selects(n) /\ Eligible(n) = {}) =>
              /\ req'[n].pc = "done"
              /\ req'[n].status = 200
              /\ req'[n].source = "software"
              /\ req'[n].sample = 0
              /\ Len(req'[n].entropy_hex) = 2 * ENTROPY_BYTES
              /\ store' = store]_vars

\* A GET was answered software while the store held samples, all used.
C9_Witness ==
    /\ store # <<>>
    /\ \A i \in DOMAIN store : store[i].used
    /\ \E n \in Requests : Software(n) /\ Len(req[n].entropy_hex) = 64

\* The _id of the sample that accepted POST request m stored, requests
\* handled one after the other.
SampleOf(m) == Cardinality({p \in Requests : p <= m /\ Accepted(p)})

\* When POST request m was accepted the store held no fresh unused sample:
\* every older sample had been returned or had left the window.
NoFreshBefore(m) ==
    \A i \in 1..(SampleOf(m) - 1) :
        \/ \E g \in Requests : g < m /\ Hardware(g) /\ req[g].sample = i
        \/ ParseISO(store[SampleOf(m)].created_at)
              - ParseISO(store[i].created_at) > ENTROPY_MAX_AGE_MS

(* C10: requests handled one after the other, starting with no fresh       *)
(* unused sample: after payload e is accepted, the next GET, made within   *)
(* the window, returns hardware with e's digest and marks the sample used; *)
(* the GET after it, with no ingestion accepted in between, returns        *)
(* software.                                                               *)
C10_IngestIssueFallback ==
    \A m, j, k \in Requests :
        ( /\ m < j /\ j < k
          /\ Accepted(m) /\ NoFreshBefore(m)
          /\ StoreGet(j) /\ StoreGet(k)
          /\ \A p \in Requests :
                (m < p /\ p < k /\ p # j) =>
                    StorePost(p) /\ req[p].status # 200
          /\ AgeAt(j, SampleOf(m)) <= ENTROPY_MAX_AGE_MS )
        => /\ req[j].source = "hardware"
           /\ req[j].entropy_hex = ToHex(req[m].body)
           /\ req[j].sample = SampleOf(m)
           /\ store[SampleOf(m)].used
           /\ req[k].source = "software"

\* The scenario ran: ingest, hardware issuance, software issuance.
C10_Witness ==
    /\ Accepted(1) /\ req[1].body = BodySeq
    /\ Hardware(2) /\ req[2].entropy_hex = ToHex(BodySeq)
    /\ Software(3)

\* A payload every byte of which is 0x00, or every byte of which is 0xFF.
Degenerate(body) ==
    \/ \A i \in DOMAIN body : body[i] = 0
    \/ \A i \in DOMAIN body : body[i] = 255

(* C11: a 32-byte payload of all-zero or all-0xFF bytes posted to the      *)
(* store-backed endpoint is rejected: its POST is not answered 200, no     *)
(* sample with its digest is stored and no GET returns its digest.         *)
C11_DegenerateRejected ==
    /\ \A n \in Requests :
          (StorePost(n) /\ Len(req[n].body) = ENTROPY_BYTES
              /\ Degenerate(req[n].body)) => req[n].status # 200
    /\ \A i \in DOMAIN store :
          store[i].entropy_hex \notin {ToHex(BodyZeros), ToHex(BodyOnes)}
    /\ \A n \in Requests :
          Hardware(n) =>
              req[n].entropy_hex \notin {ToHex(BodyZeros), ToHex(BodyOnes)}

(* C12: every stored sample has source hardware and a digest of 64 hex     *)
(* characters; the store grows only by the insertOne of an accepted POST,  *)
(* one document at a time, written with used = false; a step that answers  *)
(* a GET with the software fallback writes nothing to the store.           *)
C12_OnlyHardwareStored ==
    [][ /\ \A i \in DOMAIN store' :
              /\ store'[i].source = "hardware"
              /\ Len(store'[i].entropy_hex) = 2 * ENTROPY_BYTES
        /\ Len(store') # Len(store) =>
              /\ Len(store') = Len(store) + 1
              /\ ~store'[Len(store')].used
              /\ \E n \in Requests :
                    /\ req[n].pc = "post_insert"
                    /\ Accepted(n)'
                    /\ store'[Len(store')].entropy_hex = ToHex(req[n].body)
        /\ \A n \in Requests :
              (~Done(n) /\ Software(n)') => store' = store ]_vars

\* A sample was stored and issued and a GET was answered by the software
\* fallback: the store holds the hardware sample and nothing else.
C12_Witness ==
    \E m, g, s \in Requests :
        /\ Accepted(m) /\ Hardware(g) /\ Software(s)
        /\ Len(store) = 1
        /\ store[1].used
        /\ store[1].entropy_hex # req[s].entropy_hex

\* The envelope was decrypted with its own fields and its own entropy.
OwnFields ==
    /\ envelope # <<>> /\ opened # <<>>
    /\ opened[1].ciphertext = envelope[1].ciphertext
    /\ opened[1].iv = envelope[1].iv
    /\ opened[1].salt = envelope[1].salt
    /\ opened[1].entropyHex = envelope[1].entropyHex

\* A string with no unpaired surrogate that does not begin with U+FEFF.
WellFormed(s) ==
    /\ \A i \in DOMAIN s :
          /\ IsHigh(s[i]) => (i < Len(s) /\ IsLow(s[i + 1]))
          /\ IsLow(s[i]) => (i > 1 /\ IsHigh(s[i - 1]))
    /\ s = <<>> \/ s[1] # 65279

(* C13 as stated: for every message p and every file buffer, decrypting    *)
(* the envelope encryption produced, with its own iv and salt and the same *)
(* entropy, returns exactly what was encrypted.                            *)
C13_RoundTrip ==
    OwnFields => (opened[1].ok /\ opened[1].value = envelope[1].plaintext)

(* C13, amended: the same for every file buffer and for every message that *)
(* is a well-formed string (no unpaired surrogate) not beginning with      *)
(* U+FEFF.                                                                 *)
C13_RoundTripWellFormed ==
    (OwnFields /\ (envelope[1].kind = "message"
                      => WellFormed(envelope[1].plaintext)))
        => (opened[1].ok /\ opened[1].value = envelope[1].plaintext)

\* A message of one character outside the basic plane, four bytes of
\* UTF-8, was encrypted and decrypted to itself.
C13_Witness ==
    /\ OwnFields
    /\ envelope[1].kind = "message"
    /\ envelope[1].plaintext = <<55357, 56832>>
    /\ opened[1].ok
    /\ opened[1].value = <<55357, 56832>>

\* The bytes of a field of the envelope or of the decryption call: the
\* ciphertext of a file is the blob's bytes, every other field is base64.
FieldBytes(r, field) ==
    IF field = "ciphertext" /\ envelope[1].kind = "file"
    THEN Return(r.ciphertext)
    ELSE Return(Base64ToBytes(r[field]))

\* The decryption call presents other bytes than encryption produced.
Differs(field) == FieldBytes(opened[1], field) # FieldBytes(envelope[1], field)
OtherEntropy ==
    HexToBytes(opened[1].entropyHex) # HexToBytes(envelope[1].entropyHex)

(* C14 as stated: a decryption whose ciphertext (tag included), iv or salt *)
(* bytes differ from what encryption produced, or whose entropy differs,   *)
(* fails with an error; a decryption that returns, returns the plaintext   *)
(* that was encrypted.                                                     *)
C14_TamperFails ==
    (envelope # <<>> /\ opened # <<>>) =>
        /\ (Differs("ciphertext") \/ Differs("iv") \/ Differs("salt")
               \/ OtherEntropy) => ~opened[1].ok
        /\ opened[1].ok => opened[1].value = envelope[1].plaintext

\* The salt differs as the key of HMAC: otherwise than by zero bytes at its
\* end.
DiffersAsHmacKey ==
    \/ ~Base64ToBytes(opened[1].salt).ok
    \/ HmacKey(Base64ToBytes(opened[1].salt).bytes)
          # HmacKey(Base64ToBytes(envelope[1].salt).bytes)

(* C14, amended: a decryption whose ciphertext (tag included) or iv bytes  *)
(* differ, whose entropy bytes differ, or whose salt differs otherwise     *)
(* than by zero bytes at its end, fails with an error; a decryption that   *)
(* returns, returns the plaintext that was encrypted when that is a file   *)
(* buffer or a well-formed string not beginning with U+FEFF.               *)
C14_TamperFailsAmended ==
    (envelope # <<>> /\ opened # <<>>) =>
        /\ (Differs("ciphertext") \/ Differs("iv") \/ DiffersAsHmacKey
               \/ OtherEntropy) => ~opened[1].ok
        /\ (opened[1].ok /\ (envelope[1].kind = "message"
                                => WellFormed(envelope[1].plaintext)))
              => opened[1].value = envelope[1].plaintext

\* A message was decrypted with one bit of its ciphertext flipped, the
\* other fields its own, and the cipher refused it.
C14_Witness ==
    /\ envelope # <<>> /\ opened # <<>>
    /\ envelope[1].kind = "message"
    /\ envelope[1].plaintext # <<>>
    /\ Base64ToBytes(opened[1].ciphertext).bytes
          = FlipBit(Base64ToBytes(envelope[1].ciphertext).bytes, 1)
    /\ ~Differs("iv") /\ ~Differs("salt") /\ ~OtherEntropy
    /\ ~opened[1].ok
    /\ opened[1].error = "OperationError"

(* C15: two calls of deriveKey with the same entropy value and the same    *)
(* supplied salt return the same key, whatever the random source yields    *)
(* in either call.                                                         *)
C15_SameKey ==
    \A i, j \in DOMAIN derived :
        ( /\ derived[i].entropyHex = derived[j].entropyHex
          /\ derived[i].supplied # <<>>
          /\ derived[i].supplied = derived[j].supplied )
        => derived[i].key = derived[j].key

\* deriveKey was called twice with the same valid entropy and the same
\* salt.
C15_Witness ==
    /\ Len(derived) = 2
    /\ derived[1].entropyHex = HexDigits(BodySeq)
    /\ derived[2].entropyHex = HexDigits(BodySeq)
    /\ derived[1].supplied = <<SoftB>>
    /\ derived[2].supplied = <<SoftB>>
    /\ derived[1].key = derived[2].key

(* C17: a call of deriveKey whose entropy is not 64 hex characters, that   *)
(* is not 32 bytes, fails and produces no key.                             *)
C17_InvalidEntropyFails ==
    \A i \in DOMAIN derived :
        Len(derived[i].entropyHex) # 2 * ENTROPY_BYTES => ~derived[i].ok

(* C18: deriveKey returns the salt it was given when one is supplied, and  *)
(* one of 32 bytes taken from the random source when none is; the key is   *)
(* derived with the salt returned.                                         *)
C18_SaltReturned ==
    \A i \in DOMAIN derived :
        LET d == derived[i]
        IN /\ d.supplied # <<>> => d.salt = d.supplied[1]
           /\ d.supplied = <<>> =>
                 (d.salt \in RandomSalts /\ Len(d.salt) = 32)
           /\ d.key = Hkdf(HexToBytes(d.entropyHex), d.salt, Info)

\* deriveKey was called without a salt, as encryption calls it, and then
\* with the salt it had returned, as decryption calls it.
C18_Witness ==
    /\ Len(derived) = 2
    /\ derived[1].supplied = <<>>
    /\ derived[2].supplied = <<derived[1].salt>>
    /\ derived[2].entropyHex = derived[1].entropyHex
    /\ derived[2].key = derived[1].key

\* The age of the cached value, and the steps of fetchEntropy calls: a call
\* returns without having gone to the endpoint, a call goes to the
\* endpoint, a call that went to the endpoint returns.
CachedAge == now - ParseISO(cachedEntropy[1].timestamp)
ServedFromCache == returned' # returned /\ ~returned'[1].live
GoesLive == fetching' = fetching + 1
LiveReturns == fetching' = fetching - 1

(* C19: a fetchEntropy call returns without contacting the endpoint only   *)
(* when a value is cached and its age, now minus its timestamp, is below   *)
(* the TTL, and it then returns that value with that age as age_ms; a call *)
(* goes to the endpoint only when no value is cached or the age has        *)
(* reached the TTL; the call that went to the endpoint returns with age_ms *)
(* 0 the value it leaves in the cache.                                     *)
C19_CachedOrLive ==
    [][ /\ ServedFromCache =>
              /\ cachedEntropy # <<>>
              /\ CachedAge < CACHE_TTL_MS
              /\ returned'[1].value =
                    [cachedEntropy[1] EXCEPT !.age_ms = <<CachedAge>>]
              /\ UNCHANGED <<cachedEntropy, fetching>>
        /\ GoesLive =>
              /\ cachedEntropy = <<>> \/ CachedAge >= CACHE_TTL_MS
              /\ UNCHANGED <<cachedEntropy, returned>>
        /\ LiveReturns =>
              /\ returned'[1].live
              /\ returned'[1].value.age_ms = <<0>>
              /\ cachedEntropy' # <<>>
              /\ cachedEntropy'[1].source = returned'[1].value.source
              /\ cachedEntropy'[1].entropy_hex
                    = returned'[1].value.entropy_hex
              /\ cachedEntropy'[1].timestamp = returned'[1].value.timestamp
      ]_vars

\* A cached value was served one millisecond before it reached the TTL,
\* and the call made when it had reached the TTL went to the endpoint.
C19_Witness ==
    /\ cachedEntropy # <<>>
    /\ CachedAge = CACHE_TTL_MS
    /\ returned # <<>>
    /\ ~returned[1].live
    /\ returned[1].value.age_ms = <<CACHE_TTL_MS - 1>>
    /\ returned[1].value.entropy_hex = cachedEntropy[1].entropy_hex
    /\ fetching = 1

(* C20: the fetchEntropy call that follows clearEntropyCache goes to the   *)
(* endpoint, however recently a value was cached, and returns nothing from *)
(* the cache.                                                              *)
C20_ClearForcesLive ==
    [][ (cleared /\ ~cleared') => (GoesLive /\ returned' = returned) ]_vars

---------------------------------------------------------------------------
\* The user signs out in this step.
SignsOut == user # <<>> /\ user' = <<>>

\* C21: the entropy cache is cleared on logout: the step in which the user
\* signs out leaves the cache empty, and a fetchEntropy call of a signed-in
\* user is never served a value that was cached before the latest sign-in.
C21_ClearedOnLogout ==
    [][ /\ SignsOut => cachedEntropy' = <<>>
        /\ (user # <<>> /\ ServedFromCache) => cachedIn = logins ]_vars

---------------------------------------------------------------------------
\* The string hex is made of 64 hexadecimal digits: it has 64 characters
\* and is the joining of 64 digits (those of one of the random values).
IsHex64(hex) ==
    /\ Len(hex) = 64
    /\ \E bytes \in SoftBytes :
          LET d == HexDigits(bytes)
          IN /\ Len(d) = 64
             /\ \A i \in DOMAIN d : IsHexDigit(d[i])
             /\ Join(d) = hex

\* C22: whenever the live call of fetchEntropy has failed (network error,
\* non-OK status, unreadable body), the call has returned a value, and that
\* value has source software and an entropy_hex of 64 hexadecimal digits.
C22_FailureFallsBack ==
    \A r \in {returned[i] : i \in DOMAIN returned} :
        r.failure # "" =>
            /\ r.live
            /\ r.value.source = "software"
            /\ IsHex64(r.value.entropy_hex)

\* The endpoint answered with a status that is not OK, and fetchEntropy
\* returned and cached a software value stamped with the client's clock.
C22_Witness ==
    /\ returned # <<>>
    /\ returned[1].failure = "status"
    /\ returned[1].value.source = "software"
    /\ returned[1].value.timestamp = ToISOString(now)
    /\ cachedEntropy = <<returned[1].value>>

---------------------------------------------------------------------------
\* C23: every fetchEntropy call eventually returns, whether or not the
\* endpoint answers.  Calls are counted, not told apart, so the property is
\* stated as what it means for the count: calls awaiting the endpoint keep
\* returning, or from some point on none is awaiting it.  (A behaviour in
\* which neither is the case has a call that never returns.)
C23_EveryCallReturns ==
    \/ []<><<fetching' < fetching>>_vars
    \/ <>[](fetching = 0)

---------------------------------------------------------------------------
\* Request n is answered in this step.
Answered(n) == req[n].pc # "done" /\ req'[n].pc = "done"

\* C24: while the store is unavailable, a request answered by the
\* store-backed endpoint gets an error: a GET gets 500 and no entropy tuple,
\* software or other; a POST gets 500, or 400 when its size is wrong, and
\* never 200; and no step changes the store.
C24_StoreUnavailable ==
    [][ ~dbUp =>
          /\ store' = store
          /\ \A n \in Requests :
                Answered(n) =>
                    /\ req'[n].status =
                          IF req'[n].method = "POST" /\ ~SizeOk(req'[n].body)
                          THEN 400 ELSE 500
                    /\ req'[n].source = ""
                    /\ req'[n].entropy_hex = ""
                    /\ req'[n].sample = 0 ]_vars

\* A sample was ingested and is still unused; the store being unavailable,
\* a GET and a POST of a payload of the right size were both answered 500.
C24_Witness ==
    /\ ~dbUp
    /\ \E i \in DOMAIN store : ~store[i].used
    /\ \E n, m \in Requests :
          /\ StoreGet(n) /\ Done(n) /\ req[n].status = 500
          /\ StorePost(m) /\ Done(m) /\ req[m].status = 500
          /\ SizeOk(req[m].body)

---------------------------------------------------------------------------
\* Request n was sent by getLatestEntropyStatus and its handler takes this
\* step.
StatusStep(n) ==
    /\ req'[n].caller = "getLatestEntropyStatus"
    /\ req'[n] # req[n]

\* C28: polling the status through getLatestEntropyStatus is read-only with
\* respect to the store: no step of a request it sent changes the store (so
\* it marks no sample used and takes none from a later fetchEntropy).
C28_StatusReadOnly ==
    [][ \A n \in Requests : StatusStep(n) => store' = store ]_vars

---------------------------------------------------------------------------
\* C26: no derived key outlives the call that created it: in every state,
\* between the operations of the client, no key is held in the state of a
\* component.
C26_NoKeyHeld == sessionKey = <<>>

\* The stored message cannot be decrypted: its ciphertext was altered, its
\* key material is another, its salt is not base64 or its payload not JSON.
Sabotaged(msg) ==
    msg.encrypted_payload \in {b.encrypted_payload : b \in OtherBodies}

\* C25: when a load that received messages finishes, every message of the
\* batch is shown, in order; one whose decryption fails is shown as the
\* marker [DECRYPTION FAILED] with no text, and every other one as its
\* decoded text.
C25_FailureMarked ==
    [][\A k \in DOMAIN loads :
          (loads[k].pc = "got" /\ loads[k].raw # <<>>
              /\ loads' = Remove(loads, k))
          => LET raw == loads[k].raw
                 off == Len(messages') - Len(raw)
             IN /\ off >= 0
                /\ \A i \in DOMAIN raw :
                      LET shown == messages'[off + i]
                      IN /\ shown.id = raw[i].id
                         /\ IF Sabotaged(raw[i])
                            THEN shown.plaintext =
                                    Marker("[DECRYPTION FAILED]")
                            ELSE /\ shown.plaintext.marker = ""
                                 /\ shown.plaintext.units # <<>>]_vars

\* One batch was shown with a failed message next to a decoded one.
C25_Witness ==
    /\ Len(messages) = 2
    /\ messages[1].plaintext = Marker("[DECRYPTION FAILED]")
    /\ messages[2].plaintext.marker = ""
    /\ loads = <<>>

\* The texts the sender of the stored message msg may have encrypted: those
\* whose envelope is the message's.
SentTexts(msg) ==
    {text \in DOMAIN SendBodies :
        SendBodies[text].encrypted_payload = msg.encrypted_payload}

\* A load that received messages finishes at this step.
Decodes ==
    \E k \in DOMAIN loads :
        /\ loads[k].pc = "got" /\ loads[k].raw # <<>>
        /\ loads' = Remove(loads, k)

C29_ListConsistent ==
    /\ \A i, j \in DOMAIN messages :
          i # j => messages[i].id # messages[j].id
    /\ \A i \in DOMAIN messages : messages[i].room_id = activeRoom

\* C30, for finite runs: when no load is in flight and the cursor is set,
\* every stored message of the active room that the cursor has passed
\* (its created_at is not after the cursor) is displayed; such a message
\* is never returned by a later poll.
C30_NothingSkipped ==
    (loads = <<>> /\ lastTimestampRef # <<>>)
    => \A m \in DOMAIN mongoMessages :
          (/\ mongoMessages[m].room_id = activeRoom
           /\ ~StrLess(lastTimestampRef[1], mongoMessages[m].created_at))
          => \E i \in DOMAIN messages : messages[i].id = m

\* fetchEntropy returns at this step.
Returns == returned' # <<>> /\ (returned' # returned \/ fetching' < fetching)

\* C31: a hardware value that fetchEntropy returns is, at the instant it is
\* returned, at most 30 s older than its sample's created_at, and less than
\* 25 s older when it is served from the cache.
C31_StalenessBound ==
    [][Returns =>
          LET value == returned'[1].value
              age == now' - ParseISO(value.timestamp)
          IN value.source = "hardware"
                => /\ age <= ENTROPY_MAX_AGE_MS
                   /\ ~returned'[1].live => age < CACHE_TTL_MS]_vars

\* A hardware value one millisecond short of the TTL was served from the
\* cache.
C31_Witness ==
    /\ returned # <<>>
    /\ returned[1].value.source = "hardware"
    /\ ~returned[1].live
    /\ returned[1].value.age_ms = <<CACHE_TTL_MS - 1>>

\* C32: while no user is signed in, Index holds no session key, also when a
\* deriveSessionKey call started before the logout returns after it.
C32_NoKeyAfterLogout == user = <<>> => sessionKey = <<>>

\* C33: every file recorded in the metadata store has its encrypted blob
\* and its .meta object in the bucket, and handleDownload decrypts it to
\* the file that was uploaded.
C33_ListedFilesDecrypt ==
    \A k \in DOMAIN fileMeta :
        LET o == Stored(bucket, fileMeta[k].encrypted_path)
        IN /\ o.blob # <<>> /\ o.meta # <<>>
           /\ Download(bucket, fileMeta[k]) = Return(fileMeta[k].original)

\* The derive-key handler of request n answers at this step.
DeriveAnswers(n) == req[n].pc = "mem_derive" /\ req'[n].pc = "done"

\* The samples accepted by the in-memory endpoint, and the derive-key
\* responses whose source is hardware.
MemAccepted ==
    {n \in Requests : /\ req[n].ep = "memory" /\ req[n].method = "POST"
                      /\ (req[n].pc = "mem_log" \/ req[n].status = 200)}
DerivedHardware ==
    {n \in Requests : /\ req[n].method = "DERIVE" /\ req[n].pc = "done"
                      /\ req[n].source = "hardware"}

\* C34: a derive-key response with source hardware is derived from the
\* sample in the slot and leaves the slot empty, so that the next derive-key
\* request finds no sample; there are never more hardware responses than
\* samples ingested.
C34_SampleUsedOnce ==
    [][/\ \A n \in Requests :
             (DeriveAnswers(n) /\ req'[n].source = "hardware")
                => /\ latestEntropy # <<>>
                   /\ req'[n].key[2] = latestEntropy[1].data
                   /\ latestEntropy' = <<>>
       /\ \A n \in Requests :
             (DeriveAnswers(n) /\ latestEntropy = <<>>)
                => req'[n].source = "software"
       /\ Cardinality(DerivedHardware') <= Cardinality(MemAccepted')]_vars

\* Of two derive-key requests one was answered from the only sample
\* ingested and the other with source software.
C34_Witness ==
    \E m, n \in Requests :
        /\ m < n
        /\ req[m].method = "DERIVE" /\ req[n].method = "DERIVE"
        /\ req[n].pc = "done" /\ req[n].source = "hardware"
        /\ req[m].pc = "done" /\ req[m].source = "software"
        /\ Cardinality(MemAccepted) = 1

\* The in-memory POST handler of request n takes its first step here.
MemPostArrives(n) ==
    /\ req[n].pc = "new"
    /\ req'[n].ep = "memory" /\ req'[n].method = "POST"

\* C35: the in-memory endpoint answers a 32-byte payload of all 0x00 or all
\* 0xFF with 400 in the step it arrives and leaves the latest-entropy slot
\* as it was; the slot never holds such a payload and no derive-key
\* response is derived from one.
C35_MemDegenerateRejected ==
    [][/\ \A n \in Requests :
             (/\ MemPostArrives(n)
              /\ Len(req'[n].body) = ENTROPY_BYTES
              /\ Degenerate(req'[n].body))
                => /\ req'[n].pc = "done" /\ req'[n].status = 400
                   /\ latestEntropy' = latestEntropy
       /\ latestEntropy' # <<>> => ~Degenerate(latestEntropy'[1].data)
       /\ \A n \in Requests :
             req'[n].key # <<>> => ~Degenerate(req'[n].key[2])]_vars

\* A payload of all 0xFF was answered 400, and a derive-key request that
\* arrived after it was answered from an ingested sample.
C35_Witness ==
    \E m, n \in Requests :
        /\ m < n
        /\ req[m].ep = "memory" /\ req[m].body = BodyOnes
        /\ req[m].status = 400
        /\ req[n].method = "DERIVE" /\ req[n].source = "hardware"
        /\ req[n].key[2] = BodySeq

\* The cache holds the fallback of a failed call (the only value cached with
\* age_ms) and the TTL has not passed since it was generated.
FallbackCached ==
    /\ cachedEntropy # <<>>
    /\ cachedEntropy[1].age_ms = <<0>>
    /\ now - ParseISO(cachedEntropy[1].timestamp) < CACHE_TTL_MS

\* What a step does with a fallback that is cached: nothing, or the step is
\* a call that returns it with its age without contacting the endpoint, or
\* the cache is cleared.
FallbackKept ==
    \/ /\ cachedEntropy' = cachedEntropy
       /\ fetching' = fetching
       /\ \/ returned' = returned
          \/ returned' =
                <<[value |-> [cachedEntropy[1] EXCEPT !.age_ms =
                                <<now - ParseISO(cachedEntropy[1].timestamp)>>],
                   live |-> FALSE, failure |-> ""]>>
    \/ cachedEntropy' = <<>> /\ cleared' /\ fetching' = fetching

\* A call returns the fallback of its failed live call at this step.
FailureReturns ==
    /\ fetching' < fetching
    /\ returned' # <<>> /\ returned'[1].failure # ""

\* C36 as stated: the fallback of a failed call is cached, and from then on
\* until its TTL has passed or the cache is cleared every call returns it
\* and no call contacts the endpoint.
C36_FallbackCached ==
    [][/\ FailureReturns => cachedEntropy' = <<returned'[1].value>>
       /\ FallbackCached => FallbackKept]_vars

\* C36 amended: the same while no other call is awaiting the endpoint.
C36_FallbackCachedAlone ==
    [][/\ FailureReturns => cachedEntropy' = <<returned'[1].value>>
       /\ (FallbackCached /\ fetching = 0) => FallbackKept]_vars

\* A call returned the cached fallback one millisecond before its TTL.
C36_Witness ==
    /\ returned # <<>>
    /\ ~returned[1].live
    /\ returned[1].value.source = "software"
    /\ returned[1].value.entropy_hex = ToHex(SoftB)
    /\ returned[1].value.age_ms = <<CACHE_TTL_MS - 1>>
    /\ fetching = 0

\* The entropy_hex values of the stored samples that were issued.
IssuedHexes == {Chars(store[i].entropy_hex) : i \in {j \in DOMAIN store :
                                                       store[j].used}}

\* The records of messages and files: the entropy_source recorded and the
\* entropy_hex stored for decryption.
Labelled ==
    {[entropy_source |-> m.entropy_source,
      entropy_hex |-> m.encrypted_payload.value.entropy_hex] :
        m \in {mongoMessages[i] : i \in DOMAIN mongoMessages}
                 \cup {posting[i] : i \in DOMAIN posting}}
    \cup
    {LET o == Stored(bucket, fileMeta[k].encrypted_path)
     IN [entropy_source |-> fileMeta[k].entropy_source,
         entropy_hex |-> o.meta[1].value.entropy_hex] :
        k \in DOMAIN fileMeta}

\* C37: a record is labelled hardware exactly when its entropy_hex is that
\* of a stored sample the issuance endpoint issued; a record whose value
\* came from the server's or the client's software fallback is labelled
\* software, also when the value was served from the cache.
C37_LabelIsSource ==
    \A r \in Labelled :
        /\ r.entropy_source \in {"hardware", "software"}
        /\ r.entropy_source = "hardware" <=> r.entropy_hex \in IssuedHexes

\* A message labelled hardware and a file labelled software are recorded,
\* and the last call was answered from the cache with a software value.
C37_Witness ==
    /\ \E r \in Labelled : r.entropy_source = "hardware"
    /\ \E k \in DOMAIN fileMeta : fileMeta[k].entropy_source = "software"
    /\ returned # <<>> /\ ~returned[1].live
    /\ returned[1].value.source = "software"
    /\ mongoMessages # <<>>

====
